---------------------------- MODULE Spec2Model ----------------------------
(***************************************************************************)
(* Gas-sensor calibration and adaptive-send state machine of the lunchbox  *)
(* firmware ("STEP 9 v2" sketch, sketch.ino lines 770-1274).               *)
(*                                                                         *)
(* Number representation.  The sketch computes in 32-bit floats; the model *)
(* uses fixed point:                                                       *)
(*   raw ADC values   : eighths of a count (a block average is sum/8)      *)
(*   temperature      : tenths of a degree C                               *)
(*   humidity         : tenths of a percent                                *)
(*   proximity        : tenths of a centimetre                             *)
(*   ratios           : thousandths                                        *)
(*   ppm              : thousandths of a ppm                               *)
(*   log10 values     : thousandths of a decade                            *)
(* NaN is the distinguished value NAN; every comparison with it is false   *)
(* and every arithmetic operation on it yields it, as in IEEE-754.         *)
(* 32-bit words are functions 0..31 -> {0,1}, bit 0 the least significant. *)
(***************************************************************************)
EXTENDS Integers, Sequences, FiniteSets, TLC

(* ------------------------------ constants ------------------------------ *)

NAN == -999999

SAMPLE_BLOCK == 8
\* raw values are counted in 1/SAMPLE_BLOCK of an ADC count
RAW_UNIT == SAMPLE_BLOCK
ADC_MAX == 4095
MIN_SPAN == 30
LOAD_SPAN == 29

PPM_MIN_LOG == -1000
PPM_MAX_LOG == 5000
MIN_SAMPLES == 120
STABLE_CYCLES_MAX == 25

DHT_INTERVAL_MS == 2500
GAS_POLL_MS == 300
PRINT_INTERVAL_MS == 5000
MIN_POST_INTERVAL == 2000
FORCE_INTERVAL == 25000

TEMP_DELTA_MIN == 2
HUMI_DELTA_MIN == 10
GAS_RATIO_DELTA_MIN == 100
GAS_PPM_DELTA_MIN == 500000
PROX_DELTA_MIN == 20
GAS_PPM_EMA_ALPHA == 30
PPM_DISPLAY_MIN == 1000
PPM_DISPLAY_MAX == 5000000
TEMP_SPIKE_MAX_DIFF == 150
HUMI_SPIKE_MAX_DIFF == 200

CAL_VERSION == 1
FORCE_RECAL == FALSE

(* ------------------------- float helpers (NaN) ------------------------- *)

isnan(x) == x = NAN

FAdd(a, b) == IF isnan(a) \/ isnan(b) THEN NAN ELSE a + b
FSub(a, b) == IF isnan(a) \/ isnan(b) THEN NAN ELSE a - b
FLt(a, b) == ~isnan(a) /\ ~isnan(b) /\ a < b
FLe(a, b) == ~isnan(a) /\ ~isnan(b) /\ a <= b
FGt(a, b) == ~isnan(a) /\ ~isnan(b) /\ a > b
FGe(a, b) == ~isnan(a) /\ ~isnan(b) /\ a >= b
fabs(x) == IF isnan(x) THEN NAN ELSE IF x < 0 THEN -x ELSE x

Sat(x, cap) == IF x > cap THEN cap ELSE x

(* --------------------------- 32-bit words ------------------------------ *)

BitIdx == 0..31

RECURSIVE Pow2(_)
Pow2(n) == IF n = 0 THEN 1 ELSE 2 * Pow2(n - 1)

RECURSIVE Log2Floor(_)
Log2Floor(n) == IF n < 2 THEN 0 ELSE 1 + Log2Floor(n \div 2)

Zero32 == [i \in BitIdx |-> 0]

Xor32(x, y) == [i \in BitIdx |-> (x[i] + y[i]) % 2]

Shl1(x) == [i \in BitIdx |-> IF i = 0 THEN 0 ELSE x[i - 1]]

\* 0xA5A5A5A5: every byte is 1010 0101
Magic32 == [i \in BitIdx |-> IF (i % 8) \in {0, 2, 5, 7} THEN 1 ELSE 0]

\* The IEEE-754 single-precision pattern of the float whose value is x/8
\* (x an integer number of eighths), or of the quiet NaN 0x7FC00000.
FloatBits(x) ==
  IF isnan(x) THEN [i \in BitIdx |-> IF i \in 22..30 THEN 1 ELSE 0]
  ELSE IF x = 0 THEN Zero32
  ELSE LET n    == IF x < 0 THEN -x ELSE x
           e    == Log2Floor(n)
           expo == e - 3 + 127
           mant == (n - Pow2(e)) * Pow2(23 - e)
       IN [i \in BitIdx |->
            IF i = 31 THEN (IF x < 0 THEN 1 ELSE 0)
            ELSE IF i >= 23 THEN (expo \div Pow2(i - 23)) % 2
            ELSE (mant \div Pow2(i)) % 2]

\* simpleChecksum with the operand that is shifted given explicitly
ChecksumOf(pa, pb) == Xor32(Xor32(pa, Shl1(pb)), Magic32)

\* A checksum that covers max only
simpleChecksumMaxOnly(a, b) == ChecksumOf(Zero32, FloatBits(b))

simpleChecksum(a, b) == ChecksumOf(FloatBits(a), FloatBits(b))

(* ------------------------------- state --------------------------------- *)

VARIABLES
  pc,                    \* "boot" (reset), "loaded" (setup after loadCalibration), "run" (loop)
  loaded,                \* setup's local `loaded`
  store,                 \* the NVS namespace "gascal": [ver, min, max, crc]
  dhtTemp, dhtHumi, lastGoodTemp, lastGoodHumi,
  lastSentTemp, lastSentHumi, lastSentGasPPM, lastSentProx, lastSentMotion,
  gasRawMin, gasRawMax, gasMaxLocked, gasStableCount, usedStoredCalibration,
  gasMetaSent, gasPpmEma,
  sinceGasPoll, sinceDhtPoll, sinceJson, sincePost,   \* now - lastX, saturated
  emaMoves,              \* number of cycles of this session that moved gasPpmEma
  saveCalls,             \* calls of saveCalibration in this session
  lastRaw, flatRun, rising,   \* the samples handed to considerLockMax so far
  seenMax,               \* the largest of them
  cycle,                 \* what the last loop cycle computed and sent
  setupObs,              \* what setup met: the override, whether the namespace
                         \* opened, and the record it held
  serialObs,             \* the serial command that restarted the device: the
                         \* command, whether the namespace opened for it, the
                         \* record held and the calibration in RAM before it,
                         \* and what the setup of the ended session had met
                         \* (kept until setup ends)
  ckMin, ckMax, ckCrc, ckPhase,  \* a record under test by the checksum check
  probe,                 \* a locked range and two raw values under test by the
                         \* mapping check
  http,                  \* one call of postJSON: its locals, the replies it
                         \* got and the delays it made
  scale,                 \* the weight baseline of the earlier sketch and what
                         \* its last telemetry cycle read and published
  saving,                \* one call of saveCalibration taken put by put: the
                         \* puts done, the record found, and a reset cutting in
  azure                  \* azure_iot.cpp: connected, lastReconnectAttempt, and
                         \* what the last call of its interface did

calVars == <<gasRawMin, gasRawMax, gasMaxLocked, gasStableCount, usedStoredCalibration>>
dhtVars == <<dhtTemp, dhtHumi, lastGoodTemp, lastGoodHumi>>
sentVars == <<lastSentTemp, lastSentHumi, lastSentGasPPM, lastSentProx, lastSentMotion,
              gasMetaSent>>
timeVars == <<sinceGasPoll, sinceDhtPoll, sinceJson, sincePost>>
obsVars == <<emaMoves, saveCalls, lastRaw, seenMax, flatRun, rising, cycle, setupObs, serialObs>>
sideVars == <<saving, azure>>
auxVars == <<http, scale, sideVars>>
ckVars == <<ckMin, ckMax, ckCrc, ckPhase, probe, auxVars>>
vars == <<pc, loaded, store, calVars, dhtVars, sentVars, gasPpmEma, timeVars, obsVars,
          ckVars>>

\* The calibration globals as one value, for the functions that read them
Cal == [gasRawMin |-> gasRawMin, gasRawMax |-> gasRawMax,
        gasMaxLocked |-> gasMaxLocked, gasStableCount |-> gasStableCount]

(* --------------------- persisted calibration store --------------------- *)

\* What the getters return for a namespace holding no keys
EmptyStore == [ver |-> 0, min |-> NAN, max |-> NAN, crc |-> Zero32]

RecordOf(lo, hi) ==
  [ver |-> CAL_VERSION, min |-> lo, max |-> hi, crc |-> simpleChecksum(lo, hi)]

\* A version check that only asks for some stored version
VersionOkAnyStored(rec) == rec.ver # 0

\* loadCalibration, lines 884-896: the checks made on the values read
VersionOk(rec) == rec.ver # 0 /\ rec.ver = CAL_VERSION

\* A range check that asks for a span above 30
RangeOkAbove30(rec) ==
  /\ FGe(rec.min, 0)
  /\ FLe(rec.max, ADC_MAX * RAW_UNIT)
  /\ FGt(rec.max, FAdd(rec.min, MIN_SPAN * RAW_UNIT))

\* A range check that refuses a maximum at the top of the ADC range
RangeOkBelowTop(rec) ==
  /\ FGe(rec.min, 0)
  /\ FLt(rec.max, ADC_MAX * RAW_UNIT)
  /\ FGt(rec.max, FAdd(rec.min, LOAD_SPAN * RAW_UNIT))

RangeOk(rec) ==
  /\ FGe(rec.min, 0)
  /\ FLe(rec.max, ADC_MAX * RAW_UNIT)
  /\ FGt(rec.max, FAdd(rec.min, LOAD_SPAN * RAW_UNIT))

\* No checksum comparison
CrcOkUnchecked(rec) == TRUE

CrcOk(rec) == rec.crc = simpleChecksum(rec.min, rec.max)

\* loadCalibration's return value; opened = some prefs.begin succeeded
loadCalibration(rec, opened) ==
  opened /\ VersionOk(rec) /\ RangeOk(rec) /\ CrcOk(rec)

\* saveCalibration writing whether or not the namespace opened
saveCalibrationUnopened(rec, c, opened) ==
  IF ~c.gasMaxLocked THEN rec
  ELSE [ver |-> CAL_VERSION, min |-> c.gasRawMin, max |-> c.gasRawMax,
        crc |-> simpleChecksum(c.gasRawMin, c.gasRawMax)]

\* saveCalibration writing the two floats under each other's key
saveCalibrationSwapped(rec, c, opened) ==
  IF ~c.gasMaxLocked THEN rec
  ELSE IF ~opened THEN rec
  ELSE [ver |-> CAL_VERSION, min |-> c.gasRawMax, max |-> c.gasRawMin,
        crc |-> simpleChecksum(c.gasRawMin, c.gasRawMax)]

\* saveCalibration: the namespace after the call
saveCalibration(rec, c, opened) ==
  IF ~c.gasMaxLocked THEN rec
  ELSE IF ~opened THEN rec
  ELSE [ver |-> CAL_VERSION, min |-> c.gasRawMin, max |-> c.gasRawMax,
        crc |-> simpleChecksum(c.gasRawMin, c.gasRawMax)]

\* Command handling in which 'S' clears the namespace as well
commandStoreShowClears(ch, rec, opened) ==
  IF ch \in {"S", "X", "R"} /\ opened THEN EmptyStore ELSE rec

\* Command handling that never clears the namespace
commandStoreNoClear(ch, rec, opened) == rec

\* handleSerialCommands, lines 936-949: the namespace after command ch
\* ('S' prints it, 'E' restarts, 'X' and 'R' clear it if it opens)
commandStore(ch, rec, opened) ==
  IF ch \in {"X", "R"} /\ opened THEN EmptyStore ELSE rec

(* -------------------------- calibration engine ------------------------- *)

\* captureGasMin: acc / MIN_SAMPLES, rounded to the nearest eighth
captureGasMin(acc) == (2 * acc + MIN_SAMPLES) \div (2 * MIN_SAMPLES)

\* considerLockMax locking only when the counter exceeds STABLE_CYCLES_MAX
considerLockMaxLate(raw, c) ==
  IF c.gasMaxLocked THEN [cal |-> c, saveCalled |-> FALSE]
  ELSE LET c1 == IF isnan(c.gasRawMax) \/ FGt(raw, c.gasRawMax)
                 THEN [c EXCEPT !.gasRawMax = raw, !.gasStableCount = 0]
                 ELSE [c EXCEPT !.gasStableCount = @ + 1]
       IN IF ~isnan(c1.gasRawMax) /\ c1.gasStableCount > STABLE_CYCLES_MAX
          THEN IF FLt(FSub(c1.gasRawMax, c1.gasRawMin), MIN_SPAN * RAW_UNIT)
               THEN [cal |-> [c1 EXCEPT !.gasStableCount = 0], saveCalled |-> FALSE]
               ELSE [cal |-> [c1 EXCEPT !.gasMaxLocked = TRUE], saveCalled |-> TRUE]
          ELSE [cal |-> c1, saveCalled |-> FALSE]

\* considerLockMax without the span test
considerLockMaxNoSpan(raw, c) ==
  IF c.gasMaxLocked THEN [cal |-> c, saveCalled |-> FALSE]
  ELSE LET c1 == IF isnan(c.gasRawMax) \/ FGt(raw, c.gasRawMax)
                 THEN [c EXCEPT !.gasRawMax = raw, !.gasStableCount = 0]
                 ELSE [c EXCEPT !.gasStableCount = @ + 1]
       IN IF ~isnan(c1.gasRawMax) /\ c1.gasStableCount >= STABLE_CYCLES_MAX
          THEN [cal |-> [c1 EXCEPT !.gasMaxLocked = TRUE], saveCalled |-> TRUE]
          ELSE [cal |-> c1, saveCalled |-> FALSE]

\* considerLockMax without the early return when locked
\* considerLockMax taking a sample equal to the maximum for a new maximum
considerLockMaxEqualRaises(raw, c) ==
  IF c.gasMaxLocked THEN [cal |-> c, saveCalled |-> FALSE]
  ELSE LET c1 == IF isnan(c.gasRawMax) \/ FGe(raw, c.gasRawMax)
                 THEN [c EXCEPT !.gasRawMax = raw, !.gasStableCount = 0]
                 ELSE [c EXCEPT !.gasStableCount = @ + 1]
       IN IF ~isnan(c1.gasRawMax) /\ c1.gasStableCount >= STABLE_CYCLES_MAX
          THEN IF FLt(FSub(c1.gasRawMax, c1.gasRawMin), MIN_SPAN * RAW_UNIT)
               THEN [cal |-> [c1 EXCEPT !.gasStableCount = 0], saveCalled |-> FALSE]
               ELSE [cal |-> [c1 EXCEPT !.gasMaxLocked = TRUE], saveCalled |-> TRUE]
          ELSE [cal |-> c1, saveCalled |-> FALSE]

\* considerLockMax following the sample down as well as up
considerLockMaxTracksLast(raw, c) ==
  IF c.gasMaxLocked THEN [cal |-> c, saveCalled |-> FALSE]
  ELSE LET c1 == IF isnan(c.gasRawMax) \/ raw # c.gasRawMax
                 THEN [c EXCEPT !.gasRawMax = raw, !.gasStableCount = 0]
                 ELSE [c EXCEPT !.gasStableCount = @ + 1]
       IN IF ~isnan(c1.gasRawMax) /\ c1.gasStableCount >= STABLE_CYCLES_MAX
          THEN IF FLt(FSub(c1.gasRawMax, c1.gasRawMin), MIN_SPAN * RAW_UNIT)
               THEN [cal |-> [c1 EXCEPT !.gasStableCount = 0], saveCalled |-> FALSE]
               ELSE [cal |-> [c1 EXCEPT !.gasMaxLocked = TRUE], saveCalled |-> TRUE]
          ELSE [cal |-> c1, saveCalled |-> FALSE]

considerLockMaxNoReturn(raw, c) ==
  LET c1 == IF isnan(c.gasRawMax) \/ FGt(raw, c.gasRawMax)
            THEN [c EXCEPT !.gasRawMax = raw, !.gasStableCount = 0]
            ELSE [c EXCEPT !.gasStableCount = @ + 1]
  IN IF ~isnan(c1.gasRawMax) /\ c1.gasStableCount >= STABLE_CYCLES_MAX
     THEN IF FLt(FSub(c1.gasRawMax, c1.gasRawMin), MIN_SPAN * RAW_UNIT)
          THEN [cal |-> [c1 EXCEPT !.gasStableCount = 0], saveCalled |-> FALSE]
          ELSE [cal |-> [c1 EXCEPT !.gasMaxLocked = TRUE], saveCalled |-> TRUE]
     ELSE [cal |-> c1, saveCalled |-> FALSE]

considerLockMax(raw, c) ==
  IF c.gasMaxLocked THEN [cal |-> c, saveCalled |-> FALSE]
  ELSE LET c1 == IF isnan(c.gasRawMax) \/ FGt(raw, c.gasRawMax)
                 THEN [c EXCEPT !.gasRawMax = raw, !.gasStableCount = 0]
                 ELSE [c EXCEPT !.gasStableCount = @ + 1]
       IN IF ~isnan(c1.gasRawMax) /\ c1.gasStableCount >= STABLE_CYCLES_MAX
          THEN IF FLt(FSub(c1.gasRawMax, c1.gasRawMin), MIN_SPAN * RAW_UNIT)
               THEN [cal |-> [c1 EXCEPT !.gasStableCount = 0], saveCalled |-> FALSE]
               ELSE [cal |-> [c1 EXCEPT !.gasMaxLocked = TRUE], saveCalled |-> TRUE]
          ELSE [cal |-> c1, saveCalled |-> FALSE]

(* ------------------------------ value mapper --------------------------- *)

RECURSIVE Pow10(_)
Pow10(n) == IF n = 0 THEN 1 ELSE 10 * Pow10(n - 1)

\* 1000 * 10^(k/10), k = 0..9
Mant10 == <<1000, 1259, 1585, 1995, 2512, 3162, 3981, 5012, 6310, 7943>>

\* pow(10, e/1000) in thousandths, e rounded down to a tenth of a decade
Pow10Milli(e) ==
  LET d == e \div 1000
      m == Mant10[((e % 1000) \div 100) + 1]
  IN IF d < 0 THEN m \div Pow10(-d) ELSE m * Pow10(d)

RECURSIVE Decade(_)
Decade(x) == IF x < 10000 THEN 0 ELSE 1 + Decade(x \div 10)

\* log10(x/1000) in thousandths, for x >= 1000, rounded down to a tenth of a decade
Log10Milli(x) ==
  LET d    == Decade(x)
      lead == x \div Pow10(d)
      k    == CHOOSE j \in 1..10 :
                /\ Mant10[j] <= lead
                /\ (j = 10 \/ Mant10[j + 1] > lead)
  IN 1000 * d + 100 * (k - 1)

\* linearRatio without the test of gasMaxLocked
linearRatioNoLockTest(raw, c) ==
  IF FLe(c.gasRawMax, FAdd(c.gasRawMin, 1 * RAW_UNIT)) THEN NAN
  ELSE IF isnan(raw) \/ isnan(c.gasRawMax) \/ isnan(c.gasRawMin) THEN NAN
  ELSE LET r == ((raw - c.gasRawMin) * 1000) \div (c.gasRawMax - c.gasRawMin)
       IN IF r < 0 THEN 0 ELSE IF r > 1000 THEN 1000 ELSE r

linearRatio(raw, c) ==
  IF ~c.gasMaxLocked \/ FLe(c.gasRawMax, FAdd(c.gasRawMin, 1 * RAW_UNIT)) THEN NAN
  ELSE IF isnan(raw) \/ isnan(c.gasRawMax) \/ isnan(c.gasRawMin) THEN NAN
  ELSE LET r == ((raw - c.gasRawMin) * 1000) \div (c.gasRawMax - c.gasRawMin)
       IN IF r < 0 THEN 0 ELSE IF r > 1000 THEN 1000 ELSE r

\* mapGasToPPM without the clamp to the display range
mapGasToPPMUnclamped(raw, c) ==
  IF ~c.gasMaxLocked \/ isnan(raw) THEN NAN
  ELSE LET r == linearRatio(raw, c)
       IN IF isnan(r) THEN NAN
          ELSE Pow10Milli(PPM_MIN_LOG + (r * (PPM_MAX_LOG - PPM_MIN_LOG)) \div 1000)

mapGasToPPM(raw, c) ==
  IF ~c.gasMaxLocked \/ isnan(raw) THEN NAN
  ELSE LET r == linearRatio(raw, c)
       IN IF isnan(r) THEN NAN
          ELSE LET ppm == Pow10Milli(PPM_MIN_LOG + (r * (PPM_MAX_LOG - PPM_MIN_LOG)) \div 1000)
               IN IF ppm < PPM_DISPLAY_MIN THEN PPM_DISPLAY_MIN
                  ELSE IF ppm > PPM_DISPLAY_MAX THEN PPM_DISPLAY_MAX
                  ELSE ppm

\* loop, lines 1199-1204: the smoothed estimate after this cycle's sample
\* The smoothing step with a gain above 1
EmaStepOvershoot(ema, ppmInstant, c) ==
  IF c.gasMaxLocked /\ ~isnan(ppmInstant)
  THEN IF isnan(ema) THEN ppmInstant
       ELSE ema + (130 * (ppmInstant - ema)) \div 100
  ELSE ema

EmaStep(ema, ppmInstant, c) ==
  IF c.gasMaxLocked /\ ~isnan(ppmInstant)
  THEN IF isnan(ema) THEN ppmInstant
       ELSE ema + (GAS_PPM_EMA_ALPHA * (ppmInstant - ema)) \div 100
  ELSE ema

(* ------------------------- change-detection gate ----------------------- *)

\* loop, line 1206
firstSend == isnan(lastSentTemp) /\ isnan(lastSentHumi) /\ isnan(lastSentGasPPM)

\* !isnan(cur) && !isnan(last) && fabs(cur-last) >= delta
DeltaReached(cur, last, delta) ==
  ~isnan(cur) /\ ~isnan(last) /\ FGe(fabs(FSub(cur, last)), delta)

tempChanged(t) ==
  DeltaReached(t, lastSentTemp, TEMP_DELTA_MIN) \/ (firstSend /\ ~isnan(t))

humiChanged(h) ==
  DeltaReached(h, lastSentHumi, HUMI_DELTA_MIN) \/ (firstSend /\ ~isnan(h))

\* loop, lines 1214-1220: the ratio recovered from the last sent estimate
lastRatio(c) ==
  IF c.gasMaxLocked /\ ~isnan(lastSentGasPPM)
  THEN LET f == ((Log10Milli(lastSentGasPPM) - PPM_MIN_LOG) * 1000)
                  \div (PPM_MAX_LOG - PPM_MIN_LOG)
       IN IF f < 0 THEN 0 ELSE IF f > 1000 THEN 1000 ELSE f
  ELSE NAN

gasChangedRatio(raw, c) ==
  c.gasMaxLocked /\ DeltaReached(linearRatio(raw, c), lastRatio(c), GAS_RATIO_DELTA_MIN)

gasChangedPpm(ppmSend, c) ==
  c.gasMaxLocked /\ DeltaReached(ppmSend, lastSentGasPPM, GAS_PPM_DELTA_MIN)

\* The baseline written by the first acknowledged POST only
BaselineAfterFirstOnly(last, cur, changed, ok) ==
  IF ok /\ changed /\ ~isnan(cur) /\ isnan(last) THEN cur ELSE last

\* gasChanged asking for both triggers at once
gasChangedBoth(raw, ppmSend, c) ==
  \/ (gasChangedRatio(raw, c) /\ gasChangedPpm(ppmSend, c))
  \/ (firstSend /\ c.gasMaxLocked /\ ~isnan(ppmSend))

gasChanged(raw, ppmSend, c) ==
  \/ gasChangedRatio(raw, c)
  \/ gasChangedPpm(ppmSend, c)
  \/ (firstSend /\ c.gasMaxLocked /\ ~isnan(ppmSend))

proxChanged(curProx) ==
  DeltaReached(curProx, lastSentProx, PROX_DELTA_MIN)
    \/ (isnan(lastSentProx) /\ ~isnan(curProx))

motionChanged(curMotion) == curMotion # lastSentMotion

\* A gate without the forced send
ShouldSendNoHeartbeat(anyChanged, elapsed) ==
  anyChanged /\ elapsed >= MIN_POST_INTERVAL

\* A gate with half the minimum gap
ShouldSendHalfGap(anyChanged, elapsed) ==
  (anyChanged /\ 2 * elapsed >= MIN_POST_INTERVAL) \/ elapsed >= FORCE_INTERVAL

\* A gate without the minimum gap
ShouldSendNoGap(anyChanged, elapsed) ==
  anyChanged \/ elapsed >= FORCE_INTERVAL

\* loop, lines 1233-1236
ShouldSend(anyChanged, elapsed) ==
  (anyChanged /\ elapsed >= MIN_POST_INTERVAL) \/ elapsed >= FORCE_INTERVAL

\* A baseline updated by every attempt, acknowledged or not
BaselineAfterAttempt(last, cur, changed, ok) ==
  IF changed /\ ~isnan(cur) THEN cur ELSE last

\* loop, lines 1250-1252: a baseline of temperature, humidity or the gas
\* estimate after this cycle (ok = postJSON returned true)
BaselineAfter(last, cur, changed, ok) ==
  IF ok /\ changed /\ ~isnan(cur) THEN cur ELSE last

\* loop, line 1254
ProxBaselineAfter(last, cur, ok) == IF ok /\ ~isnan(cur) THEN cur ELSE last

\* loop, line 1255
MotionBaselineAfter(last, cur, ok) == IF ok THEN cur ELSE last

\* buildPayload: the readings the payload holds (NAN = reading left out)
buildPayload(t, h, gasPpm, gasRaw, c, prox, motion) ==
  LET withGas == c.gasMaxLocked /\ ~isnan(gasPpm)
  IN [temp   |-> IF ~isnan(t) /\ t > -400 /\ t < 1250 THEN t ELSE NAN,
      humi   |-> IF ~isnan(h) /\ h >= 0 /\ h <= 1000 THEN h ELSE NAN,
      gas    |-> IF withGas THEN gasPpm ELSE NAN,
      raw    |-> IF withGas THEN gasRaw ELSE NAN,
      meta   |-> withGas /\ ~gasMetaSent,
      prox   |-> prox,
      motion |-> motion]

NoPayload == [temp |-> NAN, humi |-> NAN, gas |-> NAN, raw |-> NAN, meta |-> FALSE,
              prox |-> NAN, motion |-> -1]

NoCycle == [sent |-> "none", payload |-> NoPayload, polled |-> FALSE,
            tempChanged |-> FALSE, humiChanged |-> FALSE, gasChanged |-> FALSE,
            proxChanged |-> FALSE, motionChanged |-> FALSE, elapsed |-> 0,
            saved |-> "none", dhtPolled |-> FALSE, t |-> NAN, h |-> NAN,
            prox |-> NAN, motion |-> -1, raw |-> NAN, wifi |-> FALSE,
            prev |-> "none", rejT |-> 0]

NoSetup == [force |-> FALSE, opened |-> FALSE, rec |-> EmptyStore]

NoSerial ==
  [cmd |-> "", opened |-> FALSE, before |-> EmptyStore,
   cal |-> [min |-> NAN, max |-> NAN, locked |-> FALSE], setup |-> NoSetup]

\* An outlier guard that takes every reading that is a number
AcceptsAnyNumber(reading, lastGood, maxDiff) == ~isnan(reading)

\* The outlier test with twice the limit
AcceptsTwiceTheLimit(reading, lastGood, maxDiff) ==
  ~isnan(reading)
    /\ (isnan(lastGood) \/ FLe(fabs(FSub(reading, lastGood)), 2 * maxDiff))

\* Outlier guard, lines 1190-1195: whether the reading is taken
Accepts(reading, lastGood, maxDiff) ==
  ~isnan(reading) /\ (isnan(lastGood) \/ FLe(fabs(FSub(reading, lastGood)), maxDiff))

(* ------------------------------ environment ---------------------------- *)

MaxEmaMoves == 2

Counts(n) == n * RAW_UNIT

FlatCap == STABLE_CYCLES_MAX + 2

\* The inputs the device is run against: loop periods (ms), sensor readings,
\* transport and storage outcomes, setup durations (ms), serial commands,
\* the proximity buildPayload reads; watch = whether the samples handed to
\* considerLockMax are recorded, watchDht = whether the DHT readings are,
\* watchSend = whether the outcome of the previous send is. cycle.rejT
\* counts (to 2) the temperature readings dropped since the last accepted one.
MainEnv ==
  [steps  |-> {2500},
   temps  |-> {200},
   humis  |-> {NAN, 500},
   raws   |-> {Counts(100), Counts(500)},
   prox   |-> {140},
   motion |-> {0},
   wifi   |-> BOOLEAN,
   post   |-> BOOLEAN,
   nvs    |-> BOOLEAN,
   force  |-> BOOLEAN,
   boot   |-> {7000},
   minAcc |-> {MIN_SAMPLES * Counts(100)},
   cmds   |-> {"S", "E", "X", "R"},
   payProx |-> {140},
   watch  |-> FALSE,
   watchDht |-> FALSE,
   watchSend |-> FALSE]

\* Calibration learning under every order of three gas levels, the other
\* sensors silent and the network down
LearnEnv ==
  [steps  |-> {2500},
   temps  |-> {NAN},
   humis  |-> {NAN},
   raws   |-> {Counts(100), Counts(120), Counts(500)},
   prox   |-> {140},
   motion |-> {0},
   wifi   |-> {FALSE},
   post   |-> {FALSE},
   nvs    |-> BOOLEAN,
   force  |-> BOOLEAN,
   boot   |-> {7000},
   minAcc |-> {MIN_SAMPLES * Counts(100)},
   cmds   |-> {"E", "X", "R"},
   payProx |-> {140},
   watch  |-> TRUE,
   watchDht |-> FALSE,
   watchSend |-> FALSE]

\* Boot against whatever the namespace may hold
BootEnv ==
  [steps  |-> {2500},
   temps  |-> {NAN},
   humis  |-> {NAN},
   raws   |-> {Counts(500)},
   prox   |-> {140},
   motion |-> {0},
   wifi   |-> {FALSE},
   post   |-> {FALSE},
   nvs    |-> BOOLEAN,
   force  |-> BOOLEAN,
   boot   |-> {7000},
   minAcc |-> {MIN_SAMPLES * Counts(100), MIN_SAMPLES * Counts(100) + 60},
   cmds   |-> {"E"},
   payProx |-> {140},
   watch  |-> FALSE,
   watchDht |-> FALSE,
   watchSend |-> FALSE]

\* The send gate under loop periods below and above MIN_POST_INTERVAL:
\* temperature drifting in steps of 0.1 C, proximity in steps of 1 cm, the
\* gas level constant at mid range, every transport outcome
GateEnv ==
  [steps  |-> {1000, 2500},
   temps  |-> {200, 201, 202},
   humis  |-> {500},
   raws   |-> {Counts(300)},
   prox   |-> {140, 150},
   motion |-> {0},
   wifi   |-> BOOLEAN,
   post   |-> BOOLEAN,
   nvs    |-> {TRUE},
   force  |-> {FALSE},
   boot   |-> {7000},
   minAcc |-> {MIN_SAMPLES * Counts(100)},
   cmds   |-> {},
   payProx |-> {140},
   watch  |-> FALSE,
   watchDht |-> FALSE,
   watchSend |-> FALSE]

\* The DHT giving in-range readings, readings exactly at and beyond the
\* spike limits, and failed reads; the network down
DhtEnv ==
  [steps  |-> {2500},
   temps  |-> {NAN, 200, 350, 400},
   humis  |-> {NAN, 500, 700, 750},
   raws   |-> {Counts(300)},
   prox   |-> {140},
   motion |-> {0},
   wifi   |-> {FALSE},
   post   |-> {FALSE},
   nvs    |-> {TRUE},
   force  |-> {FALSE},
   boot   |-> {7000},
   minAcc |-> {MIN_SAMPLES * Counts(100)},
   cmds   |-> {},
   payProx |-> {140},
   watch  |-> FALSE,
   watchDht |-> TRUE,
   watchSend |-> FALSE]

\* The DHT at the ends of the ranges buildPayload accepts: -40.0 and -39.0 C,
\* 100.0 and 101.0 %RH; the network up, every POST outcome
RangeEnv ==
  [GateEnv EXCEPT !.steps = {2500}, !.temps = {-400, -390},
                  !.humis = {1000, 1010}, !.prox = {140}, !.wifi = {TRUE}]

\* Records the namespace may hold at reset: any version, any two floats, the
\* matching checksum or another one
StoredRecords ==
  {[ver |-> v, min |-> lo, max |-> hi, crc |-> c] :
     v \in {0, CAL_VERSION, CAL_VERSION + 1},
     lo \in {NAN, -Counts(1), 0, Counts(100)},
     hi \in {NAN, Counts(129) + 4, Counts(130), Counts(500), Counts(4095), Counts(4096)},
     c \in {Zero32, Magic32}}
  \cup {[ver |-> v, min |-> lo, max |-> hi, crc |-> simpleChecksum(lo, hi)] :
     v \in {0, CAL_VERSION, CAL_VERSION + 1},
     lo \in {NAN, -Counts(1), 0, Counts(100)},
     hi \in {NAN, Counts(129) + 4, Counts(130), Counts(500), Counts(4095), Counts(4096)}}

(* -------------------------------- actions ------------------------------ *)

\* The globals' initialisers, lines 835-850, with the observers reset
InitRam ==
  /\ pc = "boot" /\ loaded = FALSE
  /\ dhtTemp = NAN /\ dhtHumi = NAN /\ lastGoodTemp = NAN /\ lastGoodHumi = NAN
  /\ lastSentTemp = NAN /\ lastSentHumi = NAN /\ lastSentGasPPM = NAN
  /\ lastSentProx = NAN /\ lastSentMotion = -1
  /\ gasRawMin = NAN /\ gasRawMax = NAN /\ gasMaxLocked = FALSE
  /\ gasStableCount = 0 /\ usedStoredCalibration = FALSE
  /\ gasMetaSent = FALSE /\ gasPpmEma = NAN
  /\ sinceGasPoll = 0 /\ sinceDhtPoll = 0 /\ sinceJson = 0 /\ sincePost = 0
  /\ emaMoves = 0 /\ saveCalls = 0
  /\ lastRaw = NAN /\ seenMax = NAN /\ flatRun = 0 /\ rising = TRUE
  /\ cycle = NoCycle
  /\ setupObs = NoSetup

\* esp_restart not coming back to setup
ResetRamHalted ==
  /\ pc' = "halted" /\ loaded' = FALSE
  /\ dhtTemp' = NAN /\ dhtHumi' = NAN /\ lastGoodTemp' = NAN /\ lastGoodHumi' = NAN
  /\ lastSentTemp' = NAN /\ lastSentHumi' = NAN /\ lastSentGasPPM' = NAN
  /\ lastSentProx' = NAN /\ lastSentMotion' = -1
  /\ gasRawMin' = NAN /\ gasRawMax' = NAN /\ gasMaxLocked' = FALSE
  /\ gasStableCount' = 0 /\ usedStoredCalibration' = FALSE
  /\ gasMetaSent' = FALSE /\ gasPpmEma' = NAN
  /\ sinceGasPoll' = 0 /\ sinceDhtPoll' = 0 /\ sinceJson' = 0 /\ sincePost' = 0
  /\ emaMoves' = 0 /\ saveCalls' = 0
  /\ lastRaw' = NAN /\ seenMax' = NAN /\ flatRun' = 0 /\ rising' = TRUE
  /\ cycle' = NoCycle
  /\ setupObs' = NoSetup

\* esp_restart: RAM back to its initialisers
ResetRam ==
  /\ pc' = "boot" /\ loaded' = FALSE
  /\ dhtTemp' = NAN /\ dhtHumi' = NAN /\ lastGoodTemp' = NAN /\ lastGoodHumi' = NAN
  /\ lastSentTemp' = NAN /\ lastSentHumi' = NAN /\ lastSentGasPPM' = NAN
  /\ lastSentProx' = NAN /\ lastSentMotion' = -1
  /\ gasRawMin' = NAN /\ gasRawMax' = NAN /\ gasMaxLocked' = FALSE
  /\ gasStableCount' = 0 /\ usedStoredCalibration' = FALSE
  /\ gasMetaSent' = FALSE /\ gasPpmEma' = NAN
  /\ sinceGasPoll' = 0 /\ sinceDhtPoll' = 0 /\ sinceJson' = 0 /\ sincePost' = 0
  /\ emaMoves' = 0 /\ saveCalls' = 0
  /\ lastRaw' = NAN /\ seenMax' = NAN /\ flatRun' = 0 /\ rising' = TRUE
  /\ cycle' = NoCycle
  /\ setupObs' = NoSetup

NoProbe == [lo |-> NAN, hi |-> NAN, rawA |-> NAN, rawB |-> NAN,
            ppmA |-> NAN, ppmB |-> NAN, phase |-> "off"]

(* ------------------------------- postJSON ------------------------------ *)

POST_ATTEMPTS == 3
BACKOFF_MS == 600

\* No call of postJSON in progress
NoPost == [result |-> "idle", attempts |-> 0, backoff |-> 0, delays |-> <<>>,
           replies |-> <<>>]

\* postJSON entered: attempts = 0, backoff = 600
PostStart == [result |-> "running", attempts |-> 0, backoff |-> BACKOFF_MS,
              delays |-> <<>>, replies |-> <<>>]

\* One pass of the while loop taking any reply above 0 for a success
postAttemptAnyReply(h, began, code) ==
  LET n == h.attempts + 1 IN
  IF ~began
    THEN [h EXCEPT !.attempts = n, !.result = "false",
                   !.replies = Append(@, [began |-> FALSE, code |-> -1])]
  ELSE IF code > 0
    THEN [h EXCEPT !.attempts = n, !.result = "true",
                   !.replies = Append(@, [began |-> TRUE, code |-> code])]
  ELSE [h EXCEPT !.attempts = n,
                 !.replies = Append(@, [began |-> TRUE, code |-> code]),
                 !.delays = Append(@, h.backoff),
                 !.backoff = h.backoff * 2,
                 !.result = IF n < POST_ATTEMPTS THEN "running" ELSE "false"]

\* One pass of the while loop of postJSON: began = whether h.begin succeeded,
\* code = what h.POST returned. After the third pass without a 2xx the loop
\* ends and postJSON returns false.
postAttempt(h, began, code) ==
  LET n == h.attempts + 1 IN
  IF ~began
    THEN [h EXCEPT !.attempts = n, !.result = "false",
                   !.replies = Append(@, [began |-> FALSE, code |-> -1])]
  ELSE IF code > 0 /\ code >= 200 /\ code < 300
    THEN [h EXCEPT !.attempts = n, !.result = "true",
                   !.replies = Append(@, [began |-> TRUE, code |-> code])]
  ELSE [h EXCEPT !.attempts = n,
                 !.replies = Append(@, [began |-> TRUE, code |-> code]),
                 !.delays = Append(@, h.backoff),
                 !.backoff = h.backoff * 2,
                 !.result = IF n < POST_ATTEMPTS THEN "running" ELSE "false"]

(* ------------------- weight events (earlier sketch) -------------------- *)

\* Weights in milligrams, shares in tenths of a percent, times in ms
weightThresholdConsume == 5000
weightThresholdSharePct == 350
shareWindowMs == 8000
loopIntervalMs == 2000
CONSUME_WINDOW_MS == 60000
BASELINE_REFRESH_MS == 30000
WEIGHT_EPS == 10
SHARE_BASE_MIN == 100
POT_SPAN_MG == 500000

\* readWeight: the potentiometer (0..4095) mapped to 0..500 g
readWeight(potVal) == (potVal * POT_SPAN_MG) \div ADC_MAX

\* The events one telemetry cycle hands to mqttPublish, the box switch left
\* out of both tests
weightEventsAnyBox(lastW, weight, dt, boxOpen) ==
  LET delta == lastW - weight
      pct == IF lastW > SHARE_BASE_MIN THEN (delta * 1000) \div lastW ELSE 0
  IN  (IF delta > weightThresholdConsume /\ dt < CONSUME_WINDOW_MS
         THEN {"consumption"} ELSE {})
      \cup (IF delta > 0 /\ pct >= weightThresholdSharePct /\ dt <= shareWindowMs
              THEN {"sharing_detected"} ELSE {})

\* The events one telemetry cycle hands to mqttPublish
weightEvents(lastW, weight, dt, boxOpen) ==
  LET delta == lastW - weight
      pct == IF lastW > SHARE_BASE_MIN THEN (delta * 1000) \div lastW ELSE 0
  IN  (IF boxOpen /\ delta > weightThresholdConsume /\ dt < CONSUME_WINDOW_MS
         THEN {"consumption"} ELSE {})
      \cup (IF delta > 0 /\ pct >= weightThresholdSharePct /\ dt <= shareWindowMs
                /\ boxOpen
              THEN {"sharing_detected"} ELSE {})

\* The globals of the earlier sketch before its setup has run
NoScale == [pc |-> "off", lastWeight |-> 0, since |-> 0, ran |-> FALSE,
            base |-> 0, weight |-> 0, dt |-> 0, open |-> FALSE,
            connected |-> FALSE, events |-> {}]

\* No call of saveCalibration under way
NoSave ==
  [at |-> -1, cut |-> FALSE, old |-> EmptyStore, new |-> [min |-> NAN, max |-> NAN]]

\* No call of the azure_iot.cpp interface made yet
NoCall ==
  [op |-> "none", before |-> FALSE, handed |-> FALSE, result |-> FALSE,
   branch |-> "none", attempted |-> FALSE]

\* azure_iot.cpp, lines 12-13: the initialisers; link is
\* mqttClient.connected(), now is millis() at the last call, attemptAt the
\* time of the last azureConnect made by azureLoop and gap the time between
\* the last two of them (-1: none yet), made whether that azureConnect
\* succeeded, lost whether the connection it made has been lost through a
\* failed publish since, afterLoss whether it came after such a loss
NoAzure ==
  [connected |-> FALSE, lastReconnectAttempt |-> 0, link |-> FALSE, now |-> 0,
   call |-> NoCall, attemptAt |-> -1, gap |-> -1, made |-> FALSE, lost |-> FALSE,
   afterLoss |-> FALSE]

SideOff == saving = NoSave /\ azure = NoAzure

AuxOff == http = NoPost /\ scale = NoScale /\ SideOff

CkOff ==
  /\ ckMin = NAN /\ ckMax = NAN /\ ckCrc = Zero32 /\ ckPhase = "off"
  /\ probe = NoProbe /\ AuxOff

\* A setup whose override clears the namespace as the runtime 'R' does
SetupLoadOverrideClears(env) ==
  /\ pc = "boot"
  /\ \E serialForce \in env.force,
        opened \in {nvsRO \/ nvsRW : nvsRO \in env.nvs, nvsRW \in env.nvs} :
       \E ok \in {IF ~FORCE_RECAL /\ ~serialForce THEN loadCalibration(store, opened)
                  ELSE FALSE} :
          /\ loaded' = ok
          /\ gasRawMin' = IF ok THEN store.min ELSE gasRawMin
          /\ gasRawMax' = IF ok THEN store.max ELSE gasRawMax
          /\ gasMaxLocked' = IF ok THEN TRUE ELSE gasMaxLocked
          /\ usedStoredCalibration' = IF ok THEN TRUE ELSE usedStoredCalibration
          /\ setupObs' = [force |-> FORCE_RECAL \/ serialForce,
                          opened |-> opened,
                          rec |-> store]
          /\ store' = IF FORCE_RECAL \/ serialForce THEN EmptyStore ELSE store
  /\ pc' = "loaded"
  /\ UNCHANGED <<gasStableCount, dhtVars, sentVars, gasPpmEma, timeVars,
                 emaMoves, saveCalls, lastRaw, seenMax, flatRun, rising, cycle, serialObs, ckVars>>

\* setup, lines 1157-1167: the override window, then loadCalibration
SetupLoad(env) ==
  /\ pc = "boot"
  /\ \E serialForce \in env.force,
        opened \in {nvsRO \/ nvsRW : nvsRO \in env.nvs, nvsRW \in env.nvs} :
       \E ok \in {IF ~FORCE_RECAL /\ ~serialForce THEN loadCalibration(store, opened)
                  ELSE FALSE} :
          /\ loaded' = ok
          /\ gasRawMin' = IF ok THEN store.min ELSE gasRawMin
          /\ gasRawMax' = IF ok THEN store.max ELSE gasRawMax
          /\ gasMaxLocked' = IF ok THEN TRUE ELSE gasMaxLocked
          /\ usedStoredCalibration' = IF ok THEN TRUE ELSE usedStoredCalibration
          /\ setupObs' = [force |-> FORCE_RECAL \/ serialForce,
                          opened |-> opened,
                          rec |-> store]
  /\ pc' = "loaded"
  /\ UNCHANGED <<store, gasStableCount, dhtVars, sentVars, gasPpmEma, timeVars,
                 emaMoves, saveCalls, lastRaw, seenMax, flatRun, rising, cycle, serialObs, ckVars>>

\* setup, lines 1168-1170: connectWiFi, syncTime, captureGasMin unless loaded
SetupFinish(env) ==
  /\ pc = "loaded"
  /\ \E acc \in env.minAcc, bootMs \in env.boot :
       /\ gasRawMin' = IF loaded THEN gasRawMin ELSE captureGasMin(acc)
       /\ sinceGasPoll' = Sat(bootMs, GAS_POLL_MS)
       /\ sinceDhtPoll' = Sat(bootMs, DHT_INTERVAL_MS)
       /\ sinceJson' = Sat(bootMs, PRINT_INTERVAL_MS)
       /\ sincePost' = Sat(bootMs, FORCE_INTERVAL)
  /\ pc' = "run"
  /\ serialObs' = NoSerial
  /\ UNCHANGED <<loaded, store, gasRawMax, gasMaxLocked, gasStableCount,
                 usedStoredCalibration, dhtVars, sentVars, gasPpmEma,
                 emaMoves, saveCalls, lastRaw, seenMax, flatRun, rising, cycle, setupObs, ckVars>>

\* loop, line 1175: handleSerialCommands meets 'E', 'X' or 'R'
SerialRestart(env) ==
  /\ pc = "run"
  /\ \E ch \in env.cmds \cap {"E", "X", "R"} :
     \E opened \in (IF ch = "E" THEN {FALSE} ELSE env.nvs) :
       /\ store' = commandStore(ch, store, opened)
       /\ serialObs' = [cmd |-> ch, opened |-> opened, before |-> store,
                        cal |-> [min |-> gasRawMin, max |-> gasRawMax,
                                 locked |-> gasMaxLocked],
                        setup |-> setupObs]
  /\ ResetRam
  /\ UNCHANGED ckVars

\* loop, line 1175: handleSerialCommands meets 'S' (printStoredCal), after
\* which the pass goes on as LoopCycle
SerialShow(env) ==
  /\ pc = "run"
  /\ \E ch \in env.cmds \cap {"S"}, opened \in env.nvs :
       store' = commandStore(ch, store, opened)
  /\ UNCHANGED <<pc, loaded, calVars, dhtVars, sentVars, gasPpmEma, timeVars, obsVars,
                 ckVars>>

\* loop, lines 1176-1273: one pass with no restart command pending.
\* (Values computed once are bound with \E x \in {e}.)
\* The debug print marking the calibration metadata as sent
debugPrintMarksMeta(g) == [g EXCEPT !.meta = TRUE]

\* loop, lines 1263-1271: the debug print builds a payload string and writes
\* it to Serial when it differs from the last one printed; of the program's
\* variables it assigns lastJson and its own lastDbg only. g = the globals
\* the send gate reads and writes, as the send block left them.
debugPrint(g) == g

LoopCycle(env) ==
  /\ pc = "run"
  /\ \E step \in env.steps :
     \E eGas  \in {Sat(sinceGasPoll + step, GAS_POLL_MS)},
        eDht  \in {Sat(sinceDhtPoll + step, DHT_INTERVAL_MS)},
        eJson \in {Sat(sinceJson + step, PRINT_INTERVAL_MS)},
        ePost \in {Sat(sincePost + step, FORCE_INTERVAL)} :
     \E pollGas \in {~gasMaxLocked /\ eGas >= GAS_POLL_MS},
        pollDht \in {eDht >= DHT_INTERVAL_MS} :
     \E r \in (IF pollGas THEN env.raws ELSE {NAN}),
        t \in (IF pollDht THEN env.temps ELSE {NAN}),
        h \in (IF pollDht THEN env.humis ELSE {NAN}) :
     \E lk \in {IF pollGas THEN considerLockMax(r, Cal)
                ELSE [cal |-> Cal, saveCalled |-> FALSE]},
        tOk \in {pollDht /\ Accepts(t, lastGoodTemp, TEMP_SPIKE_MAX_DIFF)},
        hOk \in {pollDht /\ Accepts(h, lastGoodHumi, HUMI_SPIKE_MAX_DIFF)} :
     \E c \in {lk.cal},
        temp \in {IF tOk THEN t ELSE dhtTemp},
        humi \in {IF hOk THEN h ELSE dhtHumi} :
     \E raw \in (IF c.gasMaxLocked THEN env.raws ELSE {CHOOSE x \in env.raws : TRUE}),
        opened \in (IF lk.saveCalled THEN env.nvs ELSE {TRUE}),
        curProx \in env.prox, curMotion \in env.motion :
     \E ema \in {EmaStep(gasPpmEma,
                         IF c.gasMaxLocked THEN mapGasToPPM(raw, c) ELSE NAN, c)} :
     \E ppmSend \in {IF c.gasMaxLocked THEN ema ELSE NAN} :
     \E tC \in {tempChanged(temp)},
        hC \in {humiChanged(humi)},
        gC \in {gasChanged(raw, ppmSend, c)},
        pC \in {proxChanged(curProx)},
        mC \in {motionChanged(curMotion)} :
     \E send \in {ShouldSend(tC \/ hC \/ gC \/ pC \/ mC, ePost)} :
     \E wifi \in (IF send THEN env.wifi ELSE {FALSE}) :
     \E sent \in (IF ~send THEN {"none"}
                  ELSE IF ~wifi THEN {"skip"}
                  ELSE {IF ok THEN "ok" ELSE "fail" : ok \in env.post}),
        payProx \in (IF send THEN env.payProx ELSE {NAN}),
        payMotion \in (IF send THEN env.motion ELSE {-1}) :
     \E acked \in {sent = "ok"} :
     \E g \in {[cal |-> c,
                temp |-> BaselineAfter(lastSentTemp, temp, tC, acked),
                humi |-> BaselineAfter(lastSentHumi, humi, hC, acked),
                gas |-> BaselineAfter(lastSentGasPPM, ppmSend, gC, acked),
                meta |-> IF acked /\ gC /\ ~isnan(ppmSend) THEN TRUE ELSE gasMetaSent,
                prox |-> ProxBaselineAfter(lastSentProx, curProx, acked),
                motion |-> MotionBaselineAfter(lastSentMotion, curMotion, acked),
                sincePost |-> IF send THEN 0 ELSE ePost]} :
     \E d \in {IF eJson >= PRINT_INTERVAL_MS THEN debugPrint(g) ELSE g} :
        /\ ema # gasPpmEma => emaMoves < MaxEmaMoves
        /\ gasRawMin' = d.cal.gasRawMin
        /\ gasRawMax' = d.cal.gasRawMax
        /\ gasMaxLocked' = d.cal.gasMaxLocked
        /\ gasStableCount' = d.cal.gasStableCount
        /\ store' = IF lk.saveCalled THEN saveCalibration(store, c, opened) ELSE store
        /\ saveCalls' = IF lk.saveCalled THEN Sat(saveCalls + 1, 2) ELSE saveCalls
        /\ lastRaw' = IF pollGas /\ env.watch THEN r ELSE lastRaw
        /\ seenMax' = IF pollGas /\ env.watch /\ (isnan(seenMax) \/ r > seenMax)
                      THEN r ELSE seenMax
        /\ flatRun' = IF ~(pollGas /\ env.watch) THEN flatRun
                      ELSE IF r = lastRaw THEN Sat(flatRun + 1, FlatCap) ELSE 1
        /\ rising' = IF pollGas /\ env.watch
                     THEN rising /\ (isnan(lastRaw) \/ r >= lastRaw)
                     ELSE rising
        /\ dhtTemp' = temp
        /\ lastGoodTemp' = IF tOk THEN t ELSE lastGoodTemp
        /\ dhtHumi' = humi
        /\ lastGoodHumi' = IF hOk THEN h ELSE lastGoodHumi
        /\ gasPpmEma' = ema
        /\ emaMoves' = IF ema # gasPpmEma THEN emaMoves + 1 ELSE emaMoves
        /\ lastSentTemp' = d.temp
        /\ lastSentHumi' = d.humi
        /\ lastSentGasPPM' = d.gas
        /\ gasMetaSent' = d.meta
        /\ lastSentProx' = d.prox
        /\ lastSentMotion' = d.motion
        /\ sinceGasPoll' = IF pollGas THEN 0 ELSE eGas
        /\ sinceDhtPoll' = IF pollDht THEN 0 ELSE eDht
        /\ sinceJson' = IF eJson >= PRINT_INTERVAL_MS THEN 0 ELSE eJson
        /\ sincePost' = d.sincePost
        /\ cycle' = [sent |-> sent,
                     payload |-> IF send
                                 THEN buildPayload(temp, humi, ppmSend, raw, c,
                                                   payProx, payMotion)
                                 ELSE NoPayload,
                     polled |-> pollGas,
                     tempChanged |-> tC, humiChanged |-> hC, gasChanged |-> gC,
                     proxChanged |-> pC, motionChanged |-> mC,
                     elapsed |-> ePost,
                     saved |-> IF ~lk.saveCalled THEN "none"
                               ELSE IF opened THEN "written" ELSE "failed",
                     dhtPolled |-> pollDht,
                     t |-> IF env.watchDht THEN t ELSE NAN,
                     h |-> IF env.watchDht THEN h ELSE NAN,
                     prox |-> curProx, motion |-> curMotion,
                     raw |-> raw, wifi |-> wifi,
                     prev |-> IF ~env.watchSend THEN "none"
                              ELSE IF cycle.sent # "none" THEN cycle.sent
                              ELSE cycle.prev,
                     rejT |-> IF ~env.watchDht THEN 0
                              ELSE IF tOk THEN 0
                              ELSE IF pollDht /\ ~isnan(t) THEN Sat(cycle.rejT + 1, 2)
                              ELSE cycle.rejT]
  /\ UNCHANGED <<pc, loaded, usedStoredCalibration, setupObs, serialObs, ckVars>>

(* ----------------------------- specifications -------------------------- *)

\* The device from reset with an empty calibration namespace
Init == InitRam /\ serialObs = NoSerial /\ store = EmptyStore /\ CkOff

Next ==
  \/ SetupLoad(MainEnv)
  \/ SetupFinish(MainEnv)
  \/ SerialRestart(MainEnv)
  \/ SerialShow(MainEnv)
  \/ LoopCycle(MainEnv)

Spec == Init /\ [][Next]_vars

\* Calibration learning, the samples handed to considerLockMax recorded
NextLearn ==
  \/ SetupLoad(LearnEnv)
  \/ SetupFinish(LearnEnv)
  \/ SerialRestart(LearnEnv)
  \/ LoopCycle(LearnEnv)

SpecLearn == Init /\ [][NextLearn]_vars

\* Reset with an arbitrary namespace content
InitBoot == InitRam /\ serialObs = NoSerial /\ store \in StoredRecords /\ CkOff

NextBoot ==
  \/ SetupLoad(BootEnv)
  \/ SetupFinish(BootEnv)
  \/ LoopCycle(BootEnv)

SpecBoot == InitBoot /\ [][NextBoot]_vars

\* Reset with the calibration of an earlier session stored
InitGate ==
  InitRam /\ serialObs = NoSerial /\ store = RecordOf(Counts(100), Counts(500)) /\ CkOff

NextGate ==
  \/ SetupLoad(GateEnv)
  \/ SetupFinish(GateEnv)
  \/ LoopCycle(GateEnv)

SpecGate == InitGate /\ [][NextGate]_vars

NextDht ==
  \/ SetupLoad(DhtEnv)
  \/ SetupFinish(DhtEnv)
  \/ LoopCycle(DhtEnv)

SpecDht == InitGate /\ [][NextDht]_vars

\* The gas level moving between five values of the stored range 100..500:
\* ratios 0.5, 0.525, 0.625, 0.75 and 0.825; the network up, every POST
\* outcome
GasEnv ==
  [GateEnv EXCEPT !.steps = {2500}, !.temps = {200}, !.prox = {140}, !.wifi = {TRUE},
                  !.raws = {Counts(300), Counts(310), Counts(350), Counts(400),
                            Counts(430)}]

NextGas ==
  \/ SetupLoad(GasEnv)
  \/ SetupFinish(GasEnv)
  \/ LoopCycle(GasEnv)

SpecGas == InitGate /\ [][NextGas]_vars

\* The temperature moving between 20.0 and 20.2 C under a loop period below
\* MIN_POST_INTERVAL, the network up or down, every POST outcome; the
\* outcome of the previous send recorded
RetryEnv ==
  [GateEnv EXCEPT !.steps = {1500}, !.temps = {200, 202}, !.prox = {140},
                  !.watchSend = TRUE]

NextRetry ==
  \/ SetupLoad(RetryEnv)
  \/ SetupFinish(RetryEnv)
  \/ LoopCycle(RetryEnv)

\* A cycle of loop whose POST is acknowledged
AckedCycle == LoopCycle(RetryEnv) /\ cycle'.sent = "ok"

\* loop is called again whenever it returns, and setup runs to its end; the
\* transport is taken to succeed eventually when it keeps being tried
SpecRetry ==
  /\ InitGate /\ [][NextRetry]_vars
  /\ WF_vars(NextRetry)
  /\ SF_vars(AckedCycle)

\* Gas levels below, at, inside, at and above the ends of the stored range
\* 100..500, everything else constant; the network up, every POST outcome
ClampEnv ==
  [GateEnv EXCEPT !.steps = {2500}, !.temps = {200}, !.prox = {140}, !.wifi = {TRUE},
                  !.raws = {Counts(50), Counts(100), Counts(300), Counts(500),
                            Counts(600)}]

NextClamp ==
  \/ SetupLoad(ClampEnv)
  \/ SetupFinish(ClampEnv)
  \/ LoopCycle(ClampEnv)

SpecClamp == InitGate /\ [][NextClamp]_vars

\* Sessions chained by 'E' restarts from an empty namespace: learning at the
\* ends of the ADC range and at the smallest span that locks, with and without
\* the boot-window override
TripEnv ==
  [LearnEnv EXCEPT !.raws = {Counts(130), Counts(ADC_MAX)},
                   !.minAcc = {0, MIN_SAMPLES * Counts(100)},
                   !.cmds = {"E"}]

NextTrip ==
  \/ SetupLoad(TripEnv)
  \/ SetupFinish(TripEnv)
  \/ SerialRestart(TripEnv)
  \/ LoopCycle(TripEnv)

SpecTrip == Init /\ [][NextTrip]_vars

(* ---------------- saveCalibration put by put, and a reset --------------- *)

\* saveCalibration, lines 905-908: the namespace after its k-th put
savePut(rec, c, k) ==
  IF k = 1 THEN [rec EXCEPT !.ver = CAL_VERSION]
  ELSE IF k = 2 THEN [rec EXCEPT !.min = c.gasRawMin]
  ELSE IF k = 3 THEN [rec EXCEPT !.max = c.gasRawMax]
  ELSE [rec EXCEPT !.crc = simpleChecksum(c.gasRawMin, c.gasRawMax)]

SAVE_PUTS == 4

\* What the namespace can hold when a lock transition calls saveCalibration:
\* nothing, or the record of an earlier lock
TornOld ==
  {EmptyStore, RecordOf(Counts(100), Counts(130)), RecordOf(Counts(100), Counts(500)),
   RecordOf(0, Counts(ADC_MAX))}

\* The ranges being locked: the span is at least 30
TornNew ==
  {n \in {[min |-> lo, max |-> hi] :
            lo \in {0, Counts(100), Counts(101)},
            hi \in {Counts(130), Counts(131), Counts(500), Counts(502), Counts(ADC_MAX)}} :
     n.max - n.min >= MIN_SPAN * RAW_UNIT}

\* considerLockMax has just set gasMaxLocked and calls saveCalibration, whose
\* prefs.begin has succeeded
InitTorn ==
  /\ pc = "run" /\ loaded = FALSE
  /\ dhtTemp = NAN /\ dhtHumi = NAN /\ lastGoodTemp = NAN /\ lastGoodHumi = NAN
  /\ lastSentTemp = NAN /\ lastSentHumi = NAN /\ lastSentGasPPM = NAN
  /\ lastSentProx = NAN /\ lastSentMotion = -1
  /\ \E n \in TornNew : gasRawMin = n.min /\ gasRawMax = n.max
  /\ gasMaxLocked = TRUE /\ gasStableCount = STABLE_CYCLES_MAX
  /\ usedStoredCalibration = FALSE
  /\ gasMetaSent = FALSE /\ gasPpmEma = NAN
  /\ sinceGasPoll = 0 /\ sinceDhtPoll = 0 /\ sinceJson = 0 /\ sincePost = 0
  /\ emaMoves = 0 /\ saveCalls = 1
  /\ lastRaw = gasRawMax /\ seenMax = gasRawMax /\ flatRun = STABLE_CYCLES_MAX
  /\ rising = TRUE
  /\ cycle = NoCycle /\ setupObs = NoSetup /\ serialObs = NoSerial
  /\ store \in TornOld
  /\ ckMin = NAN /\ ckMax = NAN /\ ckCrc = Zero32 /\ ckPhase = "off"
  /\ probe = NoProbe /\ http = NoPost /\ scale = NoScale /\ azure = NoAzure
  /\ saving = [at |-> 0, cut |-> FALSE, old |-> store,
               new |-> [min |-> gasRawMin, max |-> gasRawMax]]

\* saveCalibration, lines 905-908: the next put
SavePut ==
  /\ pc = "run" /\ saving.at \in 0..(SAVE_PUTS - 1)
  /\ store' = savePut(store, Cal, saving.at + 1)
  /\ saving' = [saving EXCEPT !.at = @ + 1]
  /\ UNCHANGED <<pc, loaded, calVars, dhtVars, sentVars, gasPpmEma, timeVars, obsVars,
                 ckMin, ckMax, ckCrc, ckPhase, probe, http, scale, azure>>

\* A reset (power loss, watchdog) while saveCalibration is under way: RAM is
\* lost, the namespace keeps the puts done
SaveCut ==
  /\ pc = "run" /\ saving.at \in 0..SAVE_PUTS /\ ~saving.cut
  /\ saving' = [saving EXCEPT !.cut = TRUE]
  /\ ResetRam
  /\ UNCHANGED <<store, serialObs, ckMin, ckMax, ckCrc, ckPhase, probe, http, scale,
                 azure>>

TornEnv == [BootEnv EXCEPT !.force = {FALSE}]

NextTorn == SavePut \/ SaveCut \/ SetupLoad(TornEnv)

SpecTorn == InitTorn /\ [][NextTorn]_vars

(* ------------------------------ azure_iot.cpp --------------------------- *)

RECONNECTION_DELAY == 5000

\* azureConnect: false without WiFi, else the outcome of mqttClient.connect
azureConnect(wifiUp, accepted) == wifiUp /\ accepted

\* isAzureConnected
isAzureConnected(a) == a.connected /\ a.link

\* azurePublish that leaves connected alone when the publish fails
azurePublishKeepsFlag(a, sent) ==
  IF ~a.connected
  THEN [a EXCEPT !.call = [NoCall EXCEPT !.op = "publish", !.before = a.connected]]
  ELSE [a EXCEPT !.call = [NoCall EXCEPT !.op = "publish", !.before = a.connected,
                                         !.handed = TRUE, !.result = sent]]

\* azurePublish; sent is what mqttClient.publish returns
azurePublish(a, sent) ==
  IF ~a.connected
  THEN [a EXCEPT !.call = [NoCall EXCEPT !.op = "publish", !.before = a.connected]]
  ELSE [a EXCEPT !.connected = sent,
                 !.lost = IF sent THEN @ ELSE a.made,
                 !.call = [NoCall EXCEPT !.op = "publish", !.before = a.connected,
                                         !.handed = TRUE, !.result = sent]]

\* azureLoop called at millis() = now
azureLoop(a, now, wifiUp, accepted) ==
  IF ~a.connected
  THEN IF now - a.lastReconnectAttempt > RECONNECTION_DELAY
       THEN LET ok == azureConnect(wifiUp, accepted)
            IN [a EXCEPT !.connected = ok,
                         !.lastReconnectAttempt = IF ok THEN 0 ELSE now,
                         !.link = IF wifiUp THEN accepted ELSE @,
                         !.attemptAt = now,
                         !.gap = IF a.attemptAt = -1 THEN -1 ELSE now - a.attemptAt,
                         !.made = ok,
                         !.lost = FALSE,
                         !.afterLoss = a.lost,
                         !.call = [NoCall EXCEPT !.op = "loop", !.before = a.connected,
                                                 !.branch = "reconnect",
                                                 !.attempted = TRUE]]
       ELSE [a EXCEPT !.call = [NoCall EXCEPT !.op = "loop", !.before = a.connected,
                                               !.branch = "reconnect"]]
  ELSE [a EXCEPT !.call = [NoCall EXCEPT !.op = "loop", !.before = a.connected,
                                          !.branch = "mqtt"]]

\* azureDisconnect
azureDisconnect(a) ==
  [a EXCEPT !.connected = FALSE, !.link = FALSE, !.made = FALSE,
            !.call = [NoCall EXCEPT !.op = "disconnect", !.before = a.connected]]

\* Times between two calls of the interface, and the span of millis() covered
AzureSteps == {1000, 6000}
MaxMillis == 20000

InitAzure ==
  /\ InitRam /\ serialObs = NoSerial /\ store = EmptyStore
  /\ ckMin = NAN /\ ckMax = NAN /\ ckCrc = Zero32 /\ ckPhase = "off"
  /\ probe = NoProbe /\ http = NoPost /\ scale = NoScale /\ saving = NoSave
  /\ azure = NoAzure

AzureFrame ==
  UNCHANGED <<pc, loaded, store, calVars, dhtVars, sentVars, gasPpmEma, timeVars,
              obsVars, ckMin, ckMax, ckCrc, ckPhase, probe, http, scale, saving>>

AzureLoopCall ==
  /\ \E dt \in AzureSteps, wifiUp \in BOOLEAN, accepted \in BOOLEAN :
       /\ azure.now + dt <= MaxMillis
       /\ azure' = azureLoop([azure EXCEPT !.now = @ + dt], azure.now + dt,
                             wifiUp, accepted)
  /\ AzureFrame

AzurePublishCall ==
  /\ \E dt \in AzureSteps, sent \in (IF azure.link THEN BOOLEAN ELSE {FALSE}) :
       /\ azure.now + dt <= MaxMillis
       /\ azure' = azurePublish([azure EXCEPT !.now = @ + dt], sent)
  /\ AzureFrame

AzureDisconnectCall ==
  /\ \E dt \in AzureSteps :
       /\ azure.now + dt <= MaxMillis
       /\ azure' = azureDisconnect([azure EXCEPT !.now = @ + dt])
  /\ AzureFrame

\* The broker or the network ends the MQTT session
AzureLinkDrop ==
  /\ azure.link
  /\ azure' = [azure EXCEPT !.link = FALSE]
  /\ AzureFrame

NextAzure == AzureLoopCall \/ AzurePublishCall \/ AzureDisconnectCall \/ AzureLinkDrop

SpecAzure == InitAzure /\ [][NextAzure]_vars

NextRange ==
  \/ SetupLoad(RangeEnv)
  \/ SetupFinish(RangeEnv)
  \/ LoopCycle(RangeEnv)

SpecRange == InitGate /\ [][NextRange]_vars

(* ------------------------- checksum under test ------------------------- *)

\* Float values (eighths) whose bit patterns the checksum is tried on
CkFloats == {NAN, 0, Counts(100), -Counts(100), Counts(500), -Counts(500), Counts(129) + 4}

\* The check loadCalibration makes at line 896
verify(lo, hi, crc) == crc = simpleChecksum(lo, hi)

InitChecksum ==
  /\ InitRam /\ serialObs = NoSerial /\ store = EmptyStore /\ probe = NoProbe /\ AuxOff
  /\ ckMin \in CkFloats /\ ckMax \in CkFloats
  /\ ckCrc = Zero32 /\ ckPhase = "fresh"

\* crc := simpleChecksum(min, max), as saveCalibration stores it
ChecksumCompute ==
  /\ ckPhase = "fresh"
  /\ ckCrc' = simpleChecksum(ckMin, ckMax)
  /\ ckPhase' = "stored"
  /\ UNCHANGED <<ckMin, ckMax, probe, auxVars, pc, loaded, store, calVars, dhtVars,
                 sentVars, gasPpmEma, timeVars, obsVars>>

\* min alone takes another bit pattern
PerturbMin ==
  /\ ckPhase = "stored"
  /\ \E v \in CkFloats : FloatBits(v) # FloatBits(ckMin) /\ ckMin' = v
  /\ ckPhase' = "minChanged"
  /\ UNCHANGED <<ckMax, ckCrc, probe, auxVars, pc, loaded, store, calVars, dhtVars,
                 sentVars, gasPpmEma, timeVars, obsVars>>

\* max alone takes another bit pattern
PerturbMax ==
  /\ ckPhase = "stored"
  /\ \E v \in CkFloats : FloatBits(v) # FloatBits(ckMax) /\ ckMax' = v
  /\ ckPhase' = "maxChanged"
  /\ UNCHANGED <<ckMin, ckCrc, probe, auxVars, pc, loaded, store, calVars, dhtVars,
                 sentVars, gasPpmEma, timeVars, obsVars>>

NextChecksum == ChecksumCompute \/ PerturbMin \/ PerturbMax

SpecChecksum == InitChecksum /\ [][NextChecksum]_vars

(* -------------------------- mapping under test ------------------------- *)

\* The calibration globals once locked on the range lo..hi (by
\* considerLockMax or by loadCalibration)
LockedCal(lo, hi) ==
  [gasRawMin |-> lo, gasRawMax |-> hi, gasMaxLocked |-> TRUE, gasStableCount |-> 0]

\* Ranges the engine can be locked on: the whole ADC range, the range of the
\* end-to-end scenario, the narrowest spans considerLockMax and
\* loadCalibration let through, and a range at the top of the scale
LockedRanges ==
  {<<0, Counts(ADC_MAX)>>, <<Counts(100), Counts(500)>>, <<Counts(100), Counts(130)>>,
   <<Counts(100), Counts(129) + 4>>, <<Counts(4000), Counts(ADC_MAX)>>}

\* Block averages (eighths of a count) the mapping is tried on
ProbeRaws ==
  {Counts(n) : n \in {0, 50, 99, 100, 101, 115, 129, 130, 131, 200, 300, 400, 499, 500,
                      501, 4000, 4050, ADC_MAX}}
    \cup {Counts(100) + 1, Counts(129) + 4, Counts(300) + 1}

InitMapper ==
  /\ InitRam /\ serialObs = NoSerial /\ store = EmptyStore
  /\ ckMin = NAN /\ ckMax = NAN /\ ckCrc = Zero32 /\ ckPhase = "off" /\ AuxOff
  /\ probe \in {[lo |-> rg[1], hi |-> rg[2], rawA |-> a, rawB |-> b,
                 ppmA |-> NAN, ppmB |-> NAN, phase |-> "fresh"] :
                  rg \in LockedRanges, a \in ProbeRaws, b \in ProbeRaws}
  /\ probe.rawA <= probe.rawB

\* mapGasToPPM applied to both raw values
MapApply ==
  /\ probe.phase = "fresh"
  /\ probe' = [probe EXCEPT
                 !.ppmA = mapGasToPPM(probe.rawA, LockedCal(probe.lo, probe.hi)),
                 !.ppmB = mapGasToPPM(probe.rawB, LockedCal(probe.lo, probe.hi)),
                 !.phase = "mapped"]
  /\ UNCHANGED <<ckMin, ckMax, ckCrc, ckPhase, auxVars, pc, loaded, store, calVars,
                 dhtVars, sentVars, gasPpmEma, timeVars, obsVars>>

NextMapper == MapApply

SpecMapper == InitMapper /\ [][NextMapper]_vars

(* ------------------------- postJSON under test ------------------------- *)

\* What h.POST returns: a client error, and statuses at and around the ends
\* of the 2xx range
PostCodes == {-1, 199, 200, 299, 300, 404, 500}

InitPost ==
  /\ InitRam /\ serialObs = NoSerial /\ store = EmptyStore
  /\ ckMin = NAN /\ ckMax = NAN /\ ckCrc = Zero32 /\ ckPhase = "off"
  /\ probe = NoProbe /\ scale = NoScale /\ SideOff
  /\ http = PostStart

\* while(attempts<3){ ... }
PostAttempt ==
  /\ http.result = "running"
  /\ http.attempts < POST_ATTEMPTS
  /\ \E r \in {[began |-> TRUE, code |-> c] : c \in PostCodes}
              \cup {[began |-> FALSE, code |-> -1]} :
        http' = postAttempt(http, r.began, r.code)
  /\ UNCHANGED <<ckMin, ckMax, ckCrc, ckPhase, probe, scale, sideVars, pc, loaded, store, calVars,
                 dhtVars, sentVars, gasPpmEma, timeVars, obsVars>>

NextPost == PostAttempt

\* The loop body is straight-line code with bounded waits (setTimeout, delay),
\* so a call that has not returned goes on to its next pass
SpecPost == InitPost /\ [][NextPost]_vars /\ WF_vars(PostAttempt)

(* ------------------ weight events under test (earlier sketch) ---------- *)

\* Potentiometer readings: an empty pan, a light load losing over 35 % in
\* under 5 g (80 to 50), and drops from 400 on either side of 5 g and of 35 %
ScalePots == {0, 50, 80, 259, 261, 359, 360, 400}

\* Times between two telemetry cycles (ms): the telemetry interval, one
\* longer than the share window, one longer than the consumption window
ScaleSteps == {loopIntervalMs, 9000, 61000}

InitScale ==
  /\ InitRam /\ serialObs = NoSerial /\ store = EmptyStore
  /\ ckMin = NAN /\ ckMax = NAN /\ ckCrc = Zero32 /\ ckPhase = "off"
  /\ probe = NoProbe /\ http = NoPost /\ SideOff
  /\ scale = NoScale

\* setup: lastWeight = readWeight(); lastWeightTime = millis()
ScaleSetup ==
  /\ scale.pc = "off"
  /\ \E pot \in ScalePots :
        scale' = [scale EXCEPT !.pc = "run", !.lastWeight = readWeight(pot), !.since = 0]
  /\ UNCHANGED <<ckMin, ckMax, ckCrc, ckPhase, probe, http, sideVars, pc, loaded, store, calVars,
                 dhtVars, sentVars, gasPpmEma, timeVars, obsVars>>

\* One telemetry cycle of loop: the events, then the baseline update
ScaleCycle ==
  /\ scale.pc = "run"
  /\ \E step \in ScaleSteps, pot \in ScalePots, boxOpen \in BOOLEAN, connected \in BOOLEAN :
     \E weight \in {readWeight(pot)}, dt \in {Sat(scale.since + step, CONSUME_WINDOW_MS)} :
     \E delta \in {scale.lastWeight - weight} :
     \E moved \in {fabs(delta) > WEIGHT_EPS \/ dt > BASELINE_REFRESH_MS} :
        scale' = [pc |-> "run",
                  lastWeight |-> IF moved THEN weight ELSE scale.lastWeight,
                  since |-> IF moved THEN 0 ELSE dt,
                  ran |-> TRUE, base |-> scale.lastWeight, weight |-> weight,
                  dt |-> dt, open |-> boxOpen, connected |-> connected,
                  events |-> IF connected
                               THEN weightEvents(scale.lastWeight, weight, dt, boxOpen)
                               ELSE {}]
  /\ UNCHANGED <<ckMin, ckMax, ckCrc, ckPhase, probe, http, sideVars, pc, loaded, store, calVars,
                 dhtVars, sentVars, gasPpmEma, timeVars, obsVars>>

NextScale == ScaleSetup \/ ScaleCycle

SpecScale == InitScale /\ [][NextScale]_vars

(* -------------------------------- claims ------------------------------- *)

\* A loop cycle ran: the step from one pass of loop to the next
IsCycle == pc = "run" /\ pc' = "run"

\* C1: in the first cycle in which a channel has a valid value while its own
\* lastSent baseline is unset, that channel's changed flag is true, whatever
\* the other channels' baselines are.  (Temperature, humidity and the gas
\* estimate become valid once and stay valid; proximity and motion are valid
\* from the first cycle.)
C1_FirstSendPerChannel ==
  [][IsCycle =>
       /\ (isnan(dhtTemp) /\ ~isnan(dhtTemp') /\ isnan(lastSentTemp)
             => cycle'.tempChanged)
       /\ (isnan(dhtHumi) /\ ~isnan(dhtHumi') /\ isnan(lastSentHumi)
             => cycle'.humiChanged)
       /\ (isnan(gasPpmEma) /\ ~isnan(gasPpmEma') /\ isnan(lastSentGasPPM)
             => cycle'.gasChanged)
       /\ (cycle = NoCycle => cycle'.proxChanged /\ cycle'.motionChanged)]_vars

\* The span M - rawMin of the last sample handed to considerLockMax is at
\* least the minimum span
SpanOfLastOk == FGe(FSub(lastRaw, gasRawMin), MIN_SPAN * RAW_UNIT)

\* C2 as stated: once a rising sample sequence has held its last value M
\* (M - rawMin >= 30) for STABLE_CYCLES_MAX samples, the engine is locked at
\* M and saveCalibration was called once.
C2_LockAfter25Flat ==
  (pc = "run" /\ rising /\ flatRun >= STABLE_CYCLES_MAX /\ SpanOfLastOk)
    => (gasMaxLocked /\ gasRawMax = lastRaw /\ saveCalls = 1)

\* C2 amended: the same once M was held for STABLE_CYCLES_MAX + 1 samples,
\* that is for STABLE_CYCLES_MAX samples after the one that first reached M.
C2_LockAfter26Flat ==
  (pc = "run" /\ rising /\ flatRun >= STABLE_CYCLES_MAX + 1 /\ SpanOfLastOk)
    => (gasMaxLocked /\ gasRawMax = lastRaw /\ saveCalls = 1)

C2_Witness ==
  /\ pc = "run" /\ rising /\ flatRun = STABLE_CYCLES_MAX + 1 /\ SpanOfLastOk
  /\ gasMaxLocked /\ ~usedStoredCalibration /\ cycle.polled

\* C3: while the tracked maximum is less than the minimum span above rawMin,
\* a considerLockMax sample never locks the engine and never calls
\* saveCalibration, and a sample that brings the stable counter to
\* STABLE_CYCLES_MAX leaves it at 0.
C3_SmallSpanNeverLocks ==
  [][(IsCycle /\ cycle'.polled
        /\ FLt(FSub(gasRawMax', gasRawMin'), MIN_SPAN * RAW_UNIT))
      => /\ ~gasMaxLocked'
         /\ saveCalls' = saveCalls
         /\ gasStableCount' < STABLE_CYCLES_MAX
         /\ (gasStableCount = STABLE_CYCLES_MAX - 1 /\ gasRawMax' = gasRawMax
               => gasStableCount' = 0)]_vars

C3_Witness ==
  /\ pc = "run" /\ cycle.polled /\ ~gasMaxLocked
  /\ lastRaw = gasRawMax /\ flatRun >= STABLE_CYCLES_MAX + 1
  /\ FLt(FSub(gasRawMax, gasRawMin), MIN_SPAN * RAW_UNIT)
  /\ gasStableCount = 0 /\ saveCalls = 0

\* The globals loadCalibration may write still hold their initialisers
CalUntouched ==
  isnan(gasRawMin) /\ isnan(gasRawMax) /\ ~gasMaxLocked /\ ~usedStoredCalibration

\* Setup has run loadCalibration (no override) and nothing has written the
\* namespace since
JustLoaded == pc = "loaded" /\ ~setupObs.force

\* C4: a stored record whose ver differs from CAL_VERSION (0 included) makes
\* loadCalibration return false whatever min, max and crc are, and the load
\* does not lock the engine.
C4_StaleVersionRejected ==
  (JustLoaded /\ store.ver # CAL_VERSION) => (~loaded /\ CalUntouched)

C4_Witness ==
  /\ JustLoaded /\ setupObs.opened /\ store.ver = CAL_VERSION + 1
  /\ store.min = Counts(100) /\ store.max = Counts(500)
  /\ store.crc = simpleChecksum(store.min, store.max)
  /\ ~loaded

\* The record breaks the range invariant of the calibration record:
\* max - min < 30 (or min or max missing), min < 0, or max > 4095
SpanOrRangeInvalid(rec) ==
  \/ ~FGe(FSub(rec.max, rec.min), MIN_SPAN * RAW_UNIT)
  \/ FLt(rec.min, 0)
  \/ FGt(rec.max, ADC_MAX * RAW_UNIT)

\* C5: a stored record with max - min < 30 (fractional spans between 29 and
\* 30 and a missing min or max included), with min < 0 or with max > 4095
\* makes loadCalibration return false even with the right version and
\* checksum.
C5_InvalidSpanRejected ==
  (JustLoaded /\ SpanOrRangeInvalid(store)) => ~loaded

\* C6: when the namespace cannot be opened, or the stored crc is not
\* simpleChecksum(min, max), loadCalibration returns false and leaves
\* gasRawMin, gasRawMax, gasMaxLocked and usedStoredCalibration alone; setup
\* can go on, and it ends in LEARNING_MAX with rawMin captured.
C6_LoadFailsOpen ==
  /\ (JustLoaded /\ (~setupObs.opened \/ ~verify(store.min, store.max, store.crc)))
       => (~loaded /\ CalUntouched)
  /\ (pc = "loaded" /\ ~loaded) => (CalUntouched /\ ENABLED SetupFinish(BootEnv))
  /\ (pc = "run" /\ cycle = NoCycle /\ ~loaded)
       => (~isnan(gasRawMin) /\ isnan(gasRawMax) /\ ~gasMaxLocked
           /\ gasStableCount = 0 /\ ~usedStoredCalibration)

C6_Witness ==
  /\ pc = "run" /\ cycle = NoCycle /\ ~loaded /\ ~setupObs.force /\ setupObs.opened
  /\ store.ver = CAL_VERSION /\ store.min = 0 /\ store.max = Counts(500)
  /\ ~verify(store.min, store.max, store.crc)
  /\ gasRawMin = Counts(100)

\* The record is valid as the calibration record's invariant has it
RecordValid(rec) ==
  /\ rec.ver = CAL_VERSION
  /\ FGe(rec.min, 0)
  /\ FLe(rec.max, ADC_MAX * RAW_UNIT)
  /\ FGe(FSub(rec.max, rec.min), MIN_SPAN * RAW_UNIT)
  /\ rec.crc = simpleChecksum(rec.min, rec.max)

\* C7: when the record read at boot is valid and no override is requested,
\* the engine is LOCKED from setup on with gasRawMin and gasRawMax the stored
\* values and usedStoredCalibration set; the MIN phase does not run and
\* saveCalibration is not called in the session.  (Reading the record takes
\* the namespace to open; a namespace that does not open is C6's case.)
C7_BootFromStored ==
  (pc \in {"loaded", "run"} /\ ~setupObs.force /\ setupObs.opened
     /\ RecordValid(setupObs.rec))
    => /\ loaded /\ gasMaxLocked /\ usedStoredCalibration
       /\ gasRawMin = setupObs.rec.min /\ gasRawMax = setupObs.rec.max
       /\ gasStableCount = 0 /\ saveCalls = 0 /\ store = setupObs.rec

C7_Witness ==
  /\ pc = "run" /\ cycle # NoCycle /\ ~setupObs.force /\ setupObs.opened
  /\ RecordValid(setupObs.rec)
  /\ setupObs.rec.max = setupObs.rec.min + MIN_SPAN * RAW_UNIT
  /\ loaded /\ gasMaxLocked /\ ~isnan(gasPpmEma)

\* C8: the stored checksum verifies against the pair it was computed from,
\* and no longer verifies once min alone or max alone has taken any other
\* bit pattern.
C8_ChecksumDetectsChange ==
  /\ ckPhase = "stored" => verify(ckMin, ckMax, ckCrc)
  /\ ckPhase \in {"minChanged", "maxChanged"} => ~verify(ckMin, ckMax, ckCrc)

\* C9: once gasMaxLocked is true, every step but a restart keeps it true and
\* keeps gasRawMin, gasRawMax and usedStoredCalibration; considerLockMax
\* changes nothing and saves nothing when locked.
C9_LockedIsTerminal ==
  [][/\ (gasMaxLocked /\ pc' # "boot")
          => (gasMaxLocked' /\ UNCHANGED <<gasRawMin, gasRawMax, usedStoredCalibration>>)
     /\ gasMaxLocked
          => \A raw \in MainEnv.raws :
               considerLockMax(raw, Cal) = [cal |-> Cal, saveCalled |-> FALSE]]_vars

C9_Witness ==
  pc = "run" /\ gasMaxLocked /\ ~usedStoredCalibration /\ cycle.sent = "ok"
    /\ ~isnan(lastSentGasPPM)

\* C10: while the engine is not LOCKED there is no gas estimate: mapGasToPPM
\* and linearRatio yield NaN for every raw sample, gasPpmEma and
\* lastSentGasPPM are unset, gasChanged is false and the payload holds no gas
\* reading.
C10_NoEstimateBeforeLock ==
  ~gasMaxLocked =>
    /\ \A raw \in MainEnv.raws :
         /\ isnan(mapGasToPPM(raw, Cal))
         /\ isnan(linearRatio(raw, Cal))
         /\ ~gasChanged(raw, gasPpmEma, Cal)
    /\ isnan(gasPpmEma) /\ isnan(lastSentGasPPM)
    /\ ~cycle.gasChanged /\ isnan(cycle.payload.gas) /\ ~cycle.payload.meta
    /\ ~gasMetaSent

C10_Witness ==
  /\ pc = "run" /\ ~gasMaxLocked /\ cycle.sent = "ok" /\ ~isnan(cycle.payload.temp)
  /\ gasRawMax = Counts(500) /\ gasStableCount = STABLE_CYCLES_MAX - 1

\* One of the five changed flags of a cycle is set
AnyChanged(cy) ==
  cy.tempChanged \/ cy.humiChanged \/ cy.gasChanged \/ cy.proxChanged \/ cy.motionChanged

\* The cycle met no change with the time since lastPost at FORCE_INTERVAL
HeartbeatDue(cy) == ~AnyChanged(cy) /\ cy.elapsed >= FORCE_INTERVAL

\* C11 as stated: with no channel reporting a change, the first loop cycle at
\* which now - lastPost reaches FORCE_INTERVAL posts the payload.
C11_HeartbeatSends ==
  [][(IsCycle /\ HeartbeatDue(cycle')) => cycle'.sent \in {"ok", "fail"}]_vars

\* C11 amended: with no channel reporting a change, the gate fires in the
\* first loop cycle at which now - lastPost reaches FORCE_INTERVAL and not in
\* any cycle before it: the payload is built, postJSON is called if WiFi is
\* connected (otherwise the POST is skipped), and lastPost is set to now, so
\* that the time since lastPost is below FORCE_INTERVAL after every cycle.
C11_HeartbeatAttempt ==
  [][IsCycle =>
       /\ HeartbeatDue(cycle')
            => /\ cycle'.sent # "none" /\ cycle'.payload # NoPayload
               /\ cycle'.wifi <=> cycle'.sent \in {"ok", "fail"}
               /\ sincePost' = 0
       /\ (~AnyChanged(cycle') /\ cycle'.elapsed < FORCE_INTERVAL)
            => cycle'.sent = "none"
       /\ sincePost' < FORCE_INTERVAL]_vars

C11_Witness ==
  /\ pc = "run" /\ HeartbeatDue(cycle) /\ cycle.sent = "ok"
  /\ ~isnan(lastSentTemp) /\ ~isnan(lastSentHumi) /\ ~isnan(lastSentGasPPM)
  /\ lastSentTemp = dhtTemp /\ lastSentProx = cycle.prox

\* The reading differs from the baseline by less than the threshold
Within(cur, last, delta) ==
  ~isnan(cur) /\ ~isnan(last) /\ FLt(fabs(FSub(cur, last)), delta)

\* C12: for a numeric channel whose baseline is set, a reading less than the
\* channel's threshold away from the last sent value reports changed = false
\* and leaves the baseline as it is, and a reading at least the threshold
\* away from the last sent value reports changed = true, whatever the reading
\* observed just before it was.  (For the gas estimate the reading is within
\* threshold when both the ppm delta and the ratio delta are below theirs.)
C12_Hysteresis ==
  [][IsCycle =>
       /\ Within(dhtTemp', lastSentTemp, TEMP_DELTA_MIN)
            => (~cycle'.tempChanged /\ lastSentTemp' = lastSentTemp)
       /\ DeltaReached(dhtTemp', lastSentTemp, TEMP_DELTA_MIN) => cycle'.tempChanged
       /\ Within(dhtHumi', lastSentHumi, HUMI_DELTA_MIN)
            => (~cycle'.humiChanged /\ lastSentHumi' = lastSentHumi)
       /\ DeltaReached(dhtHumi', lastSentHumi, HUMI_DELTA_MIN) => cycle'.humiChanged
       /\ (gasMaxLocked
             /\ Within(gasPpmEma', lastSentGasPPM, GAS_PPM_DELTA_MIN)
             /\ Within(linearRatio(cycle'.raw, Cal), lastRatio(Cal), GAS_RATIO_DELTA_MIN))
            => (~cycle'.gasChanged /\ lastSentGasPPM' = lastSentGasPPM)
       /\ (gasMaxLocked /\ DeltaReached(gasPpmEma', lastSentGasPPM, GAS_PPM_DELTA_MIN))
            => cycle'.gasChanged
       /\ Within(cycle'.prox, lastSentProx, PROX_DELTA_MIN)
            => (~cycle'.proxChanged /\ lastSentProx' = lastSentProx)
       /\ DeltaReached(cycle'.prox, lastSentProx, PROX_DELTA_MIN) => cycle'.proxChanged]_vars

\* C13: on a cycle whose POST succeeded, a channel whose changed flag was
\* false keeps its lastSent value (temperature, humidity, gas, proximity and
\* motion alike).
C13_BaselineOnlyIfChanged ==
  [][(IsCycle /\ cycle'.sent = "ok") =>
       /\ ~cycle'.tempChanged => lastSentTemp' = lastSentTemp
       /\ ~cycle'.humiChanged => lastSentHumi' = lastSentHumi
       /\ ~cycle'.gasChanged => (lastSentGasPPM' = lastSentGasPPM /\ gasMetaSent' = gasMetaSent)
       /\ ~cycle'.proxChanged => lastSentProx' = lastSentProx
       /\ ~cycle'.motionChanged => lastSentMotion' = lastSentMotion]_vars

\* C14: a cycle whose POST failed, or whose POST was skipped because WiFi is
\* down, leaves lastSentTemp, lastSentHumi, lastSentGasPPM, lastSentProx,
\* lastSentMotion and gasMetaSent as they were.
C14_FailureKeepsBaselines ==
  [][(IsCycle /\ cycle'.sent \in {"fail", "skip"}) => UNCHANGED sentVars]_vars

C14_Witness ==
  /\ pc = "run" /\ cycle.sent = "fail" /\ cycle.wifi
  /\ cycle.tempChanged /\ ~isnan(lastSentTemp) /\ lastSentTemp # dhtTemp
  /\ cycle.payload.temp = dhtTemp

\* C15: in every loop cycle the gate fires (the payload is built and the POST
\* attempted or skipped for want of WiFi) if and only if
\* (anyChanged and now - lastPost >= MIN_POST_INTERVAL) or
\* now - lastPost >= FORCE_INTERVAL, anyChanged being the OR of the five
\* changed flags computed against the baselines; in every other cycle no
\* payload is built or posted, no baseline moves and lastPost stays.
C15_EmissionPolicy ==
  [][IsCycle =>
       /\ \E step \in GateEnv.steps : cycle'.elapsed = Sat(sincePost + step, FORCE_INTERVAL)
       /\ cycle'.tempChanged = tempChanged(dhtTemp')
       /\ cycle'.humiChanged = humiChanged(dhtHumi')
       /\ cycle'.gasChanged = gasChanged(cycle'.raw, IF gasMaxLocked' THEN gasPpmEma' ELSE NAN, Cal')
       /\ cycle'.proxChanged = proxChanged(cycle'.prox)
       /\ cycle'.motionChanged = motionChanged(cycle'.motion)
       /\ (cycle'.sent # "none")
            <=> \/ (AnyChanged(cycle') /\ cycle'.elapsed >= MIN_POST_INTERVAL)
                \/ cycle'.elapsed >= FORCE_INTERVAL
       /\ cycle'.sent # "none" => (cycle'.payload # NoPayload /\ sincePost' = 0)
       /\ cycle'.sent = "none"
            => /\ cycle'.payload = NoPayload
               /\ UNCHANGED sentVars
               /\ sincePost' = cycle'.elapsed]_vars

C15_Witness ==
  /\ pc = "run" /\ cycle.sent = "none" /\ cycle.tempChanged
  /\ ~isnan(lastSentTemp) /\ cycle.elapsed < MIN_POST_INTERVAL

\* The reading is a number no more than maxDiff away from lastGood
InRange(reading, lastGood, maxDiff) == FLe(fabs(FSub(reading, lastGood)), maxDiff)

\* The reading is NaN or a number more than maxDiff away from lastGood
Spike(reading, lastGood, maxDiff) ==
  isnan(reading) \/ FGt(fabs(FSub(reading, lastGood)), maxDiff)

\* C16: at a DHT poll the first non-NaN temperature (humidity) reading is
\* accepted; once lastGood is set, a reading that is NaN or more than 15 C
\* (20 %RH) away from it changes neither lastGood nor the channel's current
\* value, and a reading within that distance of lastGood is accepted and
\* becomes both; between polls nothing changes.
C16_OutlierRejection ==
  [][IsCycle =>
       /\ cycle'.dhtPolled =>
            /\ (isnan(lastGoodTemp) /\ ~isnan(cycle'.t))
                 => (lastGoodTemp' = cycle'.t /\ dhtTemp' = cycle'.t)
            /\ Spike(cycle'.t, lastGoodTemp, TEMP_SPIKE_MAX_DIFF)
                 => UNCHANGED <<lastGoodTemp, dhtTemp>>
            /\ InRange(cycle'.t, lastGoodTemp, TEMP_SPIKE_MAX_DIFF)
                 => (lastGoodTemp' = cycle'.t /\ dhtTemp' = cycle'.t)
            /\ (isnan(lastGoodHumi) /\ ~isnan(cycle'.h))
                 => (lastGoodHumi' = cycle'.h /\ dhtHumi' = cycle'.h)
            /\ Spike(cycle'.h, lastGoodHumi, HUMI_SPIKE_MAX_DIFF)
                 => UNCHANGED <<lastGoodHumi, dhtHumi>>
            /\ InRange(cycle'.h, lastGoodHumi, HUMI_SPIKE_MAX_DIFF)
                 => (lastGoodHumi' = cycle'.h /\ dhtHumi' = cycle'.h)
       /\ ~cycle'.dhtPolled => UNCHANGED dhtVars]_vars

\* A temperature spike was dropped in the cycle in which a humidity reading
\* exactly 20 %RH from the last good one was taken
C16_Witness ==
  /\ pc = "run" /\ cycle.dhtPolled
  /\ cycle.t = 400 /\ lastGoodTemp = 200 /\ dhtTemp = 200
  /\ cycle.h = 700 /\ lastGoodHumi = 700 /\ dhtHumi = 700 /\ cycle.payload.humi = 700

\* C17: for every locked range and raw values a <= b, mapGasToPPM(a) <=
\* mapGasToPPM(b), and both results are numbers within [PPM_DISPLAY_MIN,
\* PPM_DISPLAY_MAX]; a raw value at or below rawMin maps to PPM_DISPLAY_MIN
\* and one at or above rawMax to PPM_DISPLAY_MAX.
C17_MappingMonotoneBounded ==
  probe.phase = "mapped" =>
    /\ ~isnan(probe.ppmA) /\ ~isnan(probe.ppmB)
    /\ probe.ppmA <= probe.ppmB
    /\ PPM_DISPLAY_MIN <= probe.ppmA /\ probe.ppmB <= PPM_DISPLAY_MAX
    /\ probe.rawA <= probe.lo => probe.ppmA = PPM_DISPLAY_MIN
    /\ probe.rawB >= probe.hi => probe.ppmB = PPM_DISPLAY_MAX

C17_Witness ==
  /\ probe.phase = "mapped"
  /\ probe.lo = Counts(100) /\ probe.hi = Counts(500)
  /\ probe.rawA = Counts(50) /\ probe.ppmA = PPM_DISPLAY_MIN
  /\ probe.rawB = Counts(300) /\ probe.ppmB = 100000

\* (r - m)/(M - m) in thousandths, clamped to [0, 1]
RatioOf(r, m, M) ==
  LET q == ((r - m) * 1000) \div (M - m)
  IN IF q < 0 THEN 0 ELSE IF q > 1000 THEN 1000 ELSE q

\* C18: when a fresh calibration (MIN phase over constant block averages m,
\* so that rawMin = m; MAX phase locking at M) writes its record, the
\* namespace holds exactly ver = CAL_VERSION, min = m, max = M,
\* crc = simpleChecksum(m, M); from then on a raw sample r has the ratio
\* (r - m)/(M - m) clamped to [0, 1], and with m = 100, M = 500 the sample
\* 300 has ratio 0.5.  (The record is written when the namespace opens for
\* saveCalibration.)
C18_RecordAtLock ==
  /\ (pc = "run" /\ cycle.saved = "written") =>
       /\ gasMaxLocked /\ ~usedStoredCalibration /\ saveCalls = 1
       /\ MIN_SAMPLES * gasRawMin \in LearnEnv.minAcc
       /\ store.ver = CAL_VERSION
       /\ store.min = gasRawMin /\ store.max = gasRawMax
       /\ store.crc = simpleChecksum(gasRawMin, gasRawMax)
       /\ DOMAIN store = {"ver", "min", "max", "crc"}
  /\ (pc = "run" /\ gasMaxLocked /\ ~usedStoredCalibration) =>
       /\ \A r \in ProbeRaws : linearRatio(r, Cal) = RatioOf(r, gasRawMin, gasRawMax)
       /\ (gasRawMin = Counts(100) /\ gasRawMax = Counts(500))
            => linearRatio(Counts(300), Cal) = 500

C18_Witness ==
  /\ pc = "run" /\ cycle.saved = "written"
  /\ gasRawMin = Counts(100) /\ gasRawMax = Counts(500)
  /\ store = RecordOf(Counts(100), Counts(500))
  /\ linearRatio(Counts(300), Cal) = 500

\* The step is the lock transition with saveCalibration writing the record
LockSave ==
  /\ IsCycle /\ ~gasMaxLocked /\ gasMaxLocked' /\ cycle'.saved = "written"
  /\ store' = RecordOf(gasRawMin', gasRawMax')

\* The step is an 'X' or 'R' command clearing the namespace and restarting
ClearCommand ==
  /\ pc = "run" /\ pc' = "boot"
  /\ serialObs'.cmd \in {"X", "R"} /\ serialObs'.opened
  /\ store' = EmptyStore

\* C19: the persisted record changes only in the lock transition (by
\* saveCalibration) and by an 'X' or 'R' command; every other step (sensor
\* reads, loadCalibration accepting or rejecting, 'S', 'E', the gate, a POST
\* whatever its outcome) leaves it as it is, and saveCalibration writes
\* nothing while the engine is unlocked.
C19_StoreWriters ==
  [][/\ store' # store => (LockSave \/ ClearCommand)
     /\ (pc' = "boot" /\ serialObs'.cmd = "E") => store' = store
     /\ \A o \in BOOLEAN :
          /\ commandStore("S", store, o) = store
          /\ commandStore("E", store, o) = store
          /\ ~gasMaxLocked => saveCalibration(store, Cal, o) = store]_vars

\* A record written at a lock was later cleared by 'X'
C19_Witness ==
  /\ pc = "boot" /\ serialObs.cmd = "X" /\ serialObs.opened
  /\ serialObs.before = RecordOf(Counts(100), Counts(500))
  /\ store = EmptyStore

C21_SaveFailureNonFatal ==
  /\ []((pc = "run" /\ cycle.saved = "failed")
          => (gasMaxLocked /\ ~usedStoredCalibration /\ saveCalls = 1
              /\ ENABLED LoopCycle(LearnEnv)))
  /\ [][/\ (IsCycle /\ cycle'.saved = "failed")
             => /\ ~gasMaxLocked /\ gasMaxLocked' /\ store' = store
                /\ gasRawMin' = gasRawMin /\ ~isnan(gasRawMax')
                /\ gasPpmEma' = mapGasToPPM(cycle'.raw, Cal') /\ ~isnan(gasPpmEma')
        /\ (IsCycle /\ gasMaxLocked)
             => (store' = store /\ saveCalls' = saveCalls /\ cycle'.saved = "none"
                 /\ gasMaxLocked')]_vars

\* A later cycle of a session whose save failed: locked in memory, nothing
\* persisted
C21_Witness ==
  /\ pc = "run" /\ gasMaxLocked /\ ~usedStoredCalibration /\ saveCalls = 1
  /\ store = EmptyStore /\ cycle.saved = "none" /\ ~cycle.polled
  /\ gasRawMin = Counts(100) /\ gasRawMax = Counts(500) /\ emaMoves = 2

\* C22: a baseline is written only after an acknowledged transmission whose
\* payload carried that channel's value: whenever lastSentTemp, lastSentHumi
\* or lastSentGasPPM changes, the POST of that cycle succeeded and its
\* payload holds a reading of that channel equal to the new baseline.
C22_BaselineWasSent ==
  [][IsCycle =>
       /\ lastSentTemp' # lastSentTemp
            => (cycle'.sent = "ok" /\ cycle'.payload.temp = lastSentTemp')
       /\ lastSentHumi' # lastSentHumi
            => (cycle'.sent = "ok" /\ cycle'.payload.humi = lastSentHumi')
       /\ lastSentGasPPM' # lastSentGasPPM
            => (cycle'.sent = "ok" /\ cycle'.payload.gas = lastSentGasPPM')]_vars

Is2xx(r) == r.began /\ r.code >= 200 /\ r.code < 300

\* C23: postJSON makes at most 3 POST attempts and every call returns. It
\* returns true exactly when an attempt got a 2xx status, and that attempt
\* is the last one; it returns false after 3 attempts without a 2xx, and at
\* once, with no further attempt, when the HTTP client cannot be
\* initialised. The delay that follows failed attempt k is 600 * 2^(k-1) ms.
C23_BoundedRetry ==
  /\ [](http.result # "idle" =>
          /\ http.attempts <= POST_ATTEMPTS /\ Len(http.replies) = http.attempts
          /\ http.result = "true" <=> \E k \in 1..http.attempts : Is2xx(http.replies[k])
          /\ \A k \in 1..http.attempts :
               (Is2xx(http.replies[k]) \/ ~http.replies[k].began) => k = http.attempts
          /\ (http.attempts >= 1 /\ ~http.replies[http.attempts].began)
               => http.result = "false"
          /\ (http.attempts = POST_ATTEMPTS /\ http.result # "true")
               => http.result = "false"
          /\ http.result = "false"
               => (http.attempts = POST_ATTEMPTS \/ ~http.replies[http.attempts].began)
          /\ http.result = "running" => ENABLED PostAttempt
          /\ Len(http.delays)
               = Cardinality({k \in 1..http.attempts :
                                http.replies[k].began /\ ~Is2xx(http.replies[k])})
          /\ \A k \in 1..Len(http.delays) : http.delays[k] = 600 * Pow2(k - 1))
  /\ <>(http.result \in {"true", "false"})

\* A call that succeeded at its third attempt, after delays of 600 and 1200 ms
C23_Witness ==
  /\ http.result = "true" /\ http.attempts = 3
  /\ http.replies[1].code = 500 /\ http.replies[2].code = -1
  /\ http.replies[3].code = 200
  /\ http.delays = <<600, 1200>>

\* C30: in every telemetry cycle of the earlier sketch a 'consumption' event
\* is published only if the box is open, the weight fell by more than 5 g
\* from lastWeight and fewer than 60 s passed since the baseline was taken;
\* a 'sharing_detected' event only if the box is open, the fall is at least
\* 35 % of a baseline above 0.1 g and at most 8 s passed since the baseline;
\* neither is published while the box is closed or when the weight did not
\* fall.
C30_WeightEventsGated ==
  scale.ran =>
    /\ "consumption" \in scale.events
         => /\ scale.open
            /\ scale.base - scale.weight > 5000
            /\ scale.dt < 60000
    /\ "sharing_detected" \in scale.events
         => /\ scale.open
            /\ scale.base > 100
            /\ 100 * (scale.base - scale.weight) >= 35 * scale.base
            /\ scale.dt <= 8000
    /\ (~scale.open \/ scale.weight >= scale.base)
         => scale.events \cap {"consumption", "sharing_detected"} = {}

\* A cycle that published both events: the pan fell from 400 to 259 counts
\* with the box open, 2 s after the baseline
C30_Witness ==
  /\ scale.ran /\ scale.open /\ scale.dt = 2000
  /\ scale.base = readWeight(400) /\ scale.weight = readWeight(259)
  /\ scale.events = {"consumption", "sharing_detected"}
  /\ scale.lastWeight = scale.weight

\* C28: each call of considerLockMax(raw) while unlocked either raises the
\* maximum (no maximum yet, or raw above it): gasRawMax becomes raw and
\* gasStableCount 0; or leaves the maximum alone and adds 1 to gasStableCount
\* (a sample equal to the maximum counts as stable). The lock test (lock, or
\* the span rejection that zeroes the count) runs only when the count has
\* reached STABLE_CYCLES_MAX.
C28_LearningStep ==
  [][(IsCycle /\ cycle'.polled) =>
       /\ ~gasMaxLocked
       /\ IF isnan(gasRawMax) \/ lastRaw' > gasRawMax
            THEN /\ gasRawMax' = lastRaw' /\ gasStableCount' = 0
                 /\ ~gasMaxLocked' /\ cycle'.saved = "none"
            ELSE /\ gasRawMax' = gasRawMax
                 /\ IF gasStableCount + 1 >= STABLE_CYCLES_MAX
                      THEN \/ gasMaxLocked' /\ gasStableCount' = gasStableCount + 1
                           \/ ~gasMaxLocked' /\ gasStableCount' = 0
                      ELSE /\ gasStableCount' = gasStableCount + 1 /\ ~gasMaxLocked'
                           /\ cycle'.saved = "none"]_vars

\* A sample equal to the maximum has just been counted as stable
C28_Witness ==
  /\ pc = "run" /\ cycle.polled /\ ~gasMaxLocked
  /\ lastRaw = gasRawMax /\ gasRawMax = Counts(120) /\ flatRun = 3
  /\ gasStableCount = 2

\* C29: gasPpmEma is unset while the engine is unlocked; the first mapped
\* sample after lock initialises it to exactly that sample; from then on
\* each cycle moves it by 0.30 of the distance to the new sample, so the new
\* value lies between the previous one and the sample; and the estimate is
\* always within [PPM_DISPLAY_MIN, PPM_DISPLAY_MAX].
C29_EmaSmoothing ==
  /\ [](/\ ~gasMaxLocked => isnan(gasPpmEma)
        /\ ~isnan(gasPpmEma)
             => (PPM_DISPLAY_MIN <= gasPpmEma /\ gasPpmEma <= PPM_DISPLAY_MAX))
  /\ [][IsCycle =>
          LET sample == mapGasToPPM(cycle'.raw, Cal') IN
          /\ (gasMaxLocked' /\ isnan(gasPpmEma))
               => (~isnan(sample) /\ gasPpmEma' = sample)
          /\ ~isnan(gasPpmEma)
               => /\ 100 * (gasPpmEma' - gasPpmEma) <= 30 * (sample - gasPpmEma)
                  /\ 30 * (sample - gasPpmEma) < 100 * (gasPpmEma' - gasPpmEma) + 100
                  /\ \/ gasPpmEma <= gasPpmEma' /\ gasPpmEma' <= sample
                     \/ sample <= gasPpmEma' /\ gasPpmEma' <= gasPpmEma]_vars

\* The estimate after learning, a first sample at the top of the range and a
\* second at the bottom: 5000 - 0.30 * 4999
C29_Witness ==
  /\ pc = "run" /\ gasMaxLocked /\ ~usedStoredCalibration /\ emaMoves = 2
  /\ cycle.raw = Counts(100) /\ gasPpmEma = 3500300

RatioTrigger(raw, c) ==
  fabs(linearRatio(raw, c) - lastRatio(c)) >= GAS_RATIO_DELTA_MIN

PpmTrigger(ppmSend) ==
  fabs(ppmSend - lastSentGasPPM) >= GAS_PPM_DELTA_MIN

\* C25: with the engine locked and a gas baseline set, gasChanged is true
\* when the current ratio is at least 0.10 away from the ratio recovered
\* from lastSentGasPPM, or the smoothed estimate is at least 500 ppm away
\* from lastSentGasPPM; either one is enough, and it is false when neither
\* holds.
C25_GasDualTrigger ==
  [][(IsCycle /\ gasMaxLocked' /\ ~isnan(lastSentGasPPM)) =>
       (cycle'.gasChanged
          <=> (RatioTrigger(cycle'.raw, Cal') \/ PpmTrigger(gasPpmEma')))]_vars

\* A failed POST of a cycle the ratio trigger alone opened: the estimate is
\* within 500 ppm of the baseline, the ratio 0.125 above the baseline's
C25_Witness ==
  /\ pc = "run" /\ cycle.sent = "fail" /\ cycle.gasChanged
  /\ ~cycle.tempChanged /\ ~cycle.humiChanged
  /\ lastSentGasPPM = 100000 /\ cycle.raw = Counts(350)
  /\ RatioTrigger(cycle.raw, Cal) /\ ~PpmTrigger(gasPpmEma)

\* C27: the periodic debug print observes and does not mutate: in a cycle
\* that runs it, the lastSent baselines, gasMetaSent and the time since
\* lastPost are exactly what the send block of that cycle left (untouched
\* when nothing was sent), the calibration state and the store are what they
\* were, and the send decision is the gate's function of the changed flags
\* and the time since the last post, whether or not the print ran.
C27_DebugPrintObserves ==
  [][IsCycle =>
       LET ok == cycle'.sent = "ok" IN
       /\ cycle'.sent # "none"
            <=> \/ AnyChanged(cycle') /\ cycle'.elapsed >= MIN_POST_INTERVAL
                \/ cycle'.elapsed >= FORCE_INTERVAL
       /\ sinceJson' = 0 =>
            /\ lastSentTemp' = IF ok /\ cycle'.tempChanged /\ ~isnan(dhtTemp')
                               THEN dhtTemp' ELSE lastSentTemp
            /\ lastSentHumi' = IF ok /\ cycle'.humiChanged /\ ~isnan(dhtHumi')
                               THEN dhtHumi' ELSE lastSentHumi
            /\ lastSentGasPPM' = IF ok /\ cycle'.gasChanged /\ ~isnan(gasPpmEma')
                                 THEN gasPpmEma' ELSE lastSentGasPPM
            /\ gasMetaSent' = (gasMetaSent \/ (ok /\ cycle'.gasChanged /\ ~isnan(gasPpmEma')))
            /\ lastSentProx' = IF ok /\ ~isnan(cycle'.prox) THEN cycle'.prox
                               ELSE lastSentProx
            /\ lastSentMotion' = IF ok THEN cycle'.motion ELSE lastSentMotion
            /\ sincePost' = IF cycle'.sent = "none" THEN cycle'.elapsed ELSE 0
            /\ cycle'.sent \in {"none", "skip", "fail"} => UNCHANGED sentVars
            /\ UNCHANGED <<calVars, store>>]_vars

\* A cycle that printed and sent nothing, before any payload has carried the
\* calibration metadata
C27_Witness ==
  /\ pc = "run" /\ sinceJson = 0 /\ cycle.elapsed > 0 /\ cycle.sent = "none"
  /\ gasMaxLocked /\ ~gasMetaSent /\ sincePost = cycle.elapsed
  /\ isnan(lastSentGasPPM) /\ ~isnan(gasPpmEma)

TempDiffers == DeltaReached(dhtTemp, lastSentTemp, TEMP_DELTA_MIN)

\* C26: there is no retry queue; the gate re-triggers. After a failed
\* transmission, as long as the temperature stays at least TEMP_DELTA_MIN
\* away from its unchanged baseline, a later cycle opens the gate again;
\* with a transport that eventually succeeds when tried, an acknowledged
\* transmission follows and sets the baseline to the current temperature
\* (unless the temperature has come back within the threshold by itself).
C26_RetryByRetrigger ==
  /\ [][(IsCycle /\ TempDiffers' /\ lastSentTemp' = lastSentTemp
           /\ cycle'.sent = "none")
          => (cycle'.tempChanged /\ cycle'.elapsed < MIN_POST_INTERVAL)]_vars
  /\ ((pc = "run" /\ cycle.sent = "fail" /\ TempDiffers)
        ~> \/ (cycle.sent = "ok" /\ cycle.tempChanged /\ lastSentTemp = dhtTemp)
           \/ ~TempDiffers)

\* The POST after a failed one is acknowledged and moves the temperature
\* baseline from 20.0 to the current 20.2 C
C26_Witness ==
  /\ pc = "run" /\ cycle.prev = "fail" /\ cycle.sent = "ok" /\ cycle.tempChanged
  /\ cycle.payload.temp = 202 /\ lastSentTemp = 202 /\ dhtTemp = 202

\* C24: no failure is fatal. The device is always in setup or in the loop; a
\* rejected load, a rejected lock, a failed save, NaN readings, WiFi down or
\* a failed POST all leave the loop able to take another cycle (for as long
\* as the estimate may still move within MaxEmaMoves), setup always runs to
\* its end, and the loop is left only by the restart commands 'E', 'X', 'R',
\* which lead back to setup.
C24_NoFatalFailure ==
  /\ [](/\ pc \in {"boot", "loaded", "run"}
        /\ pc = "boot" => ENABLED SetupLoad(MainEnv)
        /\ pc = "loaded" => ENABLED SetupFinish(MainEnv)
        /\ (pc = "run" /\ emaMoves < MaxEmaMoves) => ENABLED LoopCycle(MainEnv))
  /\ [][(pc = "run" /\ pc' # "run")
          => (pc' = "boot" /\ serialObs'.cmd \in {"E", "X", "R"})]_vars

\* The loop running after the load was rejected, the save failed at lock,
\* the humidity read NaN and the POST of the last cycle failed
C24_Witness ==
  /\ pc = "run" /\ ~loaded /\ gasMaxLocked /\ store = EmptyStore /\ saveCalls = 1
  /\ isnan(dhtHumi) /\ cycle.sent = "fail" /\ emaMoves = 1
  /\ ENABLED LoopCycle(MainEnv)

\* C36: in every state with gasMaxLocked set, by load or by the lock
\* transition, gasRawMin and gasRawMax are both set and at least 30 counts
\* apart; so linearRatio's guard gasRawMax <= gasRawMin + 1 is not taken
\* while locked and every sample maps to a ratio in [0, 1].
C36_LockedRange ==
  gasMaxLocked =>
    /\ ~isnan(gasRawMin) /\ ~isnan(gasRawMax)
    /\ gasRawMax - gasRawMin >= MIN_SPAN * RAW_UNIT
    /\ ~(gasRawMax <= gasRawMin + RAW_UNIT)
    /\ \A raw \in BootEnv.raws \cup {0, Counts(ADC_MAX)} :
         /\ ~isnan(linearRatio(raw, Cal))
         /\ 0 <= linearRatio(raw, Cal) /\ linearRatio(raw, Cal) <= 1000

\* C37: while the maximum is being learned it never decreases and
\* gasStableCount stays within 0..STABLE_CYCLES_MAX; at lock, and at every
\* moment before it, gasRawMax is the largest of all samples handed to
\* considerLockMax in the session, whatever came after that sample (lower
\* samples, a rejected lock attempt), not the value held last.
C37_MaxIsRunningMax ==
  /\ [](/\ 0 <= gasStableCount /\ gasStableCount <= STABLE_CYCLES_MAX
        /\ (pc = "run" /\ ~usedStoredCalibration) => gasRawMax = seenMax)
  /\ [][(IsCycle /\ ~gasMaxLocked /\ ~isnan(gasRawMax))
          => gasRawMax' >= gasRawMax]_vars

\* Locked on 500 after a run of 120s that followed the 500: the maximum, not
\* the value held last
C37_Witness ==
  /\ pc = "run" /\ gasMaxLocked /\ ~usedStoredCalibration /\ cycle.polled
  /\ gasRawMax = Counts(500) /\ seenMax = Counts(500) /\ lastRaw = Counts(120)
  /\ ~rising /\ gasStableCount = STABLE_CYCLES_MAX

\* C38: dhtTemp equals lastGoodTemp and dhtHumi equals lastGoodHumi in every
\* state (both unset or the same value). A dropped reading moves neither, so
\* while the readings stay beyond the spike limit of the old reference each
\* poll drops them again and the channel keeps the old value.
C38_FilterCoupling ==
  /\ [](/\ dhtTemp = lastGoodTemp /\ dhtHumi = lastGoodHumi
        /\ cycle.rejT >= 1 => ~isnan(dhtTemp))
  /\ [][(IsCycle /\ cycle'.dhtPolled) =>
          /\ (~isnan(cycle'.t) /\ ~isnan(lastGoodTemp)
                /\ fabs(cycle'.t - lastGoodTemp) > TEMP_SPIKE_MAX_DIFF)
               => (UNCHANGED <<dhtTemp, lastGoodTemp>> /\ cycle'.rejT >= 1)
          /\ (~isnan(cycle'.h) /\ ~isnan(lastGoodHumi)
                /\ fabs(cycle'.h - lastGoodHumi) > HUMI_SPIKE_MAX_DIFF)
               => UNCHANGED <<dhtHumi, lastGoodHumi>>]_vars

\* The second poll in a row reading 40.0 C against a reference of 20.0 C:
\* dropped again, the channel still at 20.0 C
C38_Witness ==
  /\ pc = "run" /\ cycle.dhtPolled /\ cycle.rejT = 2 /\ cycle.t = 400
  /\ dhtTemp = 200 /\ lastGoodTemp = 200

BaselinesCurrent ==
  /\ gasMaxLocked /\ ~isnan(gasPpmEma) /\ lastSentGasPPM = gasPpmEma
  /\ ~isnan(dhtTemp) /\ lastSentTemp = dhtTemp
  /\ ~isnan(dhtHumi) /\ lastSentHumi = dhtHumi
  /\ ~isnan(cycle.prox) /\ lastSentProx = cycle.prox
  /\ lastSentMotion = cycle.motion

\* C34: once every baseline has been set from the current values, a cycle
\* whose inputs (raw gas, temperature, humidity, proximity, motion) are what
\* they were, the estimate having settled, reports no change on any channel
\* and attempts no transmission before FORCE_INTERVAL has passed since the
\* last attempt, whatever the constant gas level, the levels at and beyond
\* the ends of the calibrated range included.
C34_Quiescence ==
  [][(IsCycle /\ BaselinesCurrent
        /\ cycle'.raw = cycle.raw /\ gasPpmEma' = gasPpmEma
        /\ dhtTemp' = dhtTemp /\ dhtHumi' = dhtHumi
        /\ cycle'.prox = cycle.prox /\ cycle'.motion = cycle.motion)
       => /\ ~AnyChanged(cycle')
          /\ cycle'.sent # "none" => cycle'.elapsed >= FORCE_INTERVAL]_vars

\* The restart was an 'E' restart taken while the engine was locked and the
\* namespace held the record of the locked calibration, and the boot that
\* followed asked for no override
RestartedAfterSave ==
  /\ serialObs.cmd = "E" /\ serialObs.cal.locked
  /\ serialObs.before = RecordOf(serialObs.cal.min, serialObs.cal.max)
  /\ ~setupObs.force

\* C32: every record saveCalibration writes at a lock passes all checks of
\* loadCalibration, so a restart that neither clears the namespace nor asks for
\* the override ('E' included) boots LOCKED with the gasRawMin and gasRawMax
\* the engine had before the restart and usedStoredCalibration set.  (The
\* boot has to open the namespace to read the record.)
C32_RoundTrip ==
  /\ [][(IsCycle /\ cycle'.saved = "written")
          => /\ gasMaxLocked' /\ store' = RecordOf(gasRawMin', gasRawMax')
             /\ loadCalibration(store', TRUE)]_vars
  /\ []((pc = "loaded" /\ RestartedAfterSave /\ setupObs.opened)
          => /\ loaded /\ gasMaxLocked /\ usedStoredCalibration
             /\ gasRawMin = serialObs.cal.min /\ gasRawMax = serialObs.cal.max
             /\ store = serialObs.before)
  /\ [][(pc = "loaded" /\ loaded)
          => /\ pc' = "run" /\ gasMaxLocked' /\ usedStoredCalibration'
             /\ gasRawMin' = gasRawMin /\ gasRawMax' = gasRawMax]_vars

C32_Witness ==
  /\ pc = "loaded" /\ RestartedAfterSave /\ setupObs.opened
  /\ serialObs.cal.min = 0 /\ serialObs.cal.max = Counts(ADC_MAX)
  /\ loaded /\ gasMaxLocked /\ gasRawMin = 0 /\ gasRawMax = Counts(ADC_MAX)

\* The session ended by an 'E' restart had booted with the override over a
\* valid record and had not locked yet, and the boot that followed asked for
\* no override
RestartedWhileRelearning ==
  /\ serialObs.cmd = "E" /\ serialObs.setup.force /\ ~serialObs.cal.locked
  /\ RecordValid(serialObs.setup.rec)
  /\ ~setupObs.force

\* C39: a boot with the override (FORCE_RECAL, or 'R' in the boot window)
\* starts learning although a valid record is stored, and does not touch the
\* record: the namespace keeps it until the save of the new lock, and an 'E'
\* restart before that lock, followed by a boot without override, boots
\* LOCKED with the old calibration.
C39_OverrideKeepsRecord ==
  /\ []((pc = "loaded" /\ setupObs.force)
          => (~loaded /\ CalUntouched /\ store = setupObs.rec))
  /\ []((pc = "run" /\ cycle = NoCycle /\ setupObs.force)
          => /\ ~isnan(gasRawMin) /\ isnan(gasRawMax) /\ ~gasMaxLocked
             /\ ~usedStoredCalibration /\ store = setupObs.rec)
  /\ [][(pc = "run" /\ setupObs.force /\ store' # store)
          => /\ IsCycle /\ ~gasMaxLocked /\ gasMaxLocked'
             /\ cycle'.saved = "written"
             /\ store' = RecordOf(gasRawMin', gasRawMax')]_vars
  /\ []((pc = "run" /\ setupObs.force /\ ~gasMaxLocked) => store = setupObs.rec)
  /\ []((pc = "loaded" /\ RestartedWhileRelearning /\ setupObs.opened)
          => /\ loaded /\ gasMaxLocked /\ usedStoredCalibration
             /\ gasRawMin = serialObs.setup.rec.min
             /\ gasRawMax = serialObs.setup.rec.max
             /\ store = serialObs.setup.rec)

C39_Witness ==
  /\ pc = "loaded" /\ RestartedWhileRelearning /\ setupObs.opened
  /\ serialObs.setup.rec = RecordOf(0, Counts(130))
  /\ serialObs.cal.min = Counts(100) /\ isnan(serialObs.cal.max)
  /\ loaded /\ gasMaxLocked /\ gasRawMin = 0 /\ gasRawMax = Counts(130)

\* The boot after a reset that cut into saveCalibration between two of its puts
LoadedAfterCut ==
  pc = "loaded" /\ saving.cut /\ saving.at \in 1..(SAVE_PUTS - 1)

\* C33: when a reset cuts saveCalibration between two of its four puts (ver,
\* min, max, crc), the next loadCalibration either rejects what it finds or
\* leaves gasRawMin and gasRawMax equal to the min and max of the complete old
\* record or of the complete new one, never to a mix of the two.
C33_TornWriteSafe ==
  (LoadedAfterCut /\ loaded)
    => \/ /\ saving.old # EmptyStore
          /\ gasRawMin = saving.old.min /\ gasRawMax = saving.old.max
       \/ gasRawMin = saving.new.min /\ gasRawMax = saving.new.max

C33_Witness ==
  /\ LoadedAfterCut /\ loaded /\ saving.at = 2
  /\ saving.old = RecordOf(Counts(100), Counts(500))
  /\ saving.new = [min |-> Counts(100), max |-> Counts(502)]
  /\ store = saving.old
  /\ gasRawMin = Counts(100) /\ gasRawMax = Counts(500)

\* C31: azurePublish hands nothing to the MQTT client while connected is
\* false, and returns false; when the publish it hands over fails it returns
\* false and clears connected, so that isAzureConnected() is false and the
\* next azureLoop takes the reconnect branch.
C31_PublishGuard ==
  /\ []((azure.call.op = "publish" /\ ~azure.call.before)
          => (~azure.call.handed /\ ~azure.call.result /\ ~azure.connected))
  /\ []((azure.call.op = "publish" /\ azure.call.handed /\ ~azure.call.result)
          => (~azure.connected /\ ~isAzureConnected(azure)))
  /\ [][(azure.call.op = "publish" /\ azure.call.handed /\ ~azure.call.result
           /\ azure'.call.op = "loop")
          => azure'.call.branch = "reconnect"]_vars

C31_Witness ==
  /\ azure.call.op = "loop" /\ azure.call.branch = "reconnect"
  /\ azure.call.attempted /\ azure.afterLoss /\ azure.gap # -1

\* C40: azureLoop never calls azureConnect while connected is true, and any
\* two connection attempts made by azureLoop are more than RECONNECTION_DELAY
\* (5000 ms) apart, an attempt that follows a connection made and then lost
\* through a failed publish included.
C40_ReconnectRateLimit ==
  /\ (azure.call.op = "loop" /\ azure.call.before) => ~azure.call.attempted
  /\ azure.gap # -1 => azure.gap > RECONNECTION_DELAY

=============================================================================
